---- MODULE Spec2Model ----
(***************************************************************************)
(* Expense Categorization Engine of Fynix (backend main module):           *)
(* normalizer, similarity scorer, merchant dictionary matcher, keyword     *)
(* rule engine, tiered categorization orchestrator and correction learner. *)
(*                                                                         *)
(* Text is a sequence of one-character strings.  Scores and confidences    *)
(* are exact fractions [n |-> numerator, d |-> denominator], d > 0, so     *)
(* that the comparisons of the code are decided as over the reals.         *)
(***************************************************************************)
EXTENDS Integers, Sequences, FiniteSets, TLC

Min(a, b) == IF a <= b THEN a ELSE b
Max(a, b) == IF a >= b THEN a ELSE b

(***************************************************************************)
(* Fractions                                                               *)
(***************************************************************************)
Frac(n, d) == [n |-> n, d |-> d]
FracLt(x, y) == x.n * y.d < y.n * x.d
FracLe(x, y) == x.n * y.d <= y.n * x.d
FracEq(x, y) == x.n * y.d = y.n * x.d
FracMul(x, y) == Frac(x.n * y.n, x.d * y.d)
FracMin(x, y) == IF FracLe(x, y) THEN x ELSE y
FracMax(x, y) == IF FracLe(y, x) THEN x ELSE y
FracZero == Frac(0, 1)
FracOne == Frac(1, 1)
InUnitInterval(x) == FracLe(FracZero, x) /\ FracLe(x, FracOne)

(***************************************************************************)
(* Characters                                                              *)
(***************************************************************************)
UpperLetters ==
  <<"A","B","C","D","E","F","G","H","I","J","K","L","M",
    "N","O","P","Q","R","S","T","U","V","W","X","Y","Z">>
LowerLetters ==
  <<"a","b","c","d","e","f","g","h","i","j","k","l","m",
    "n","o","p","q","r","s","t","u","v","w","x","y","z">>
Digits == {"0","1","2","3","4","5","6","7","8","9"}

\* \s of the regular expressions and the characters String.prototype.trim removes
WhiteSpace == {" ", "\t", "\n", "\r"}
\* a slip: the exclamation mark counted as punctuation
PunctuationClass_WithBang == {".", ",", "-", "_", "/", "\\", "!"}
\* the character class [\.,\-_/\\] of normalizeMerchantText
PunctuationClass == {".", ",", "-", "_", "/", "\\"}
\* \w of the regular expressions: [A-Za-z0-9_]
IsWordChar(c) ==
  \/ \E i \in 1..26 : UpperLetters[i] = c \/ LowerLetters[i] = c
  \/ c \in Digits
  \/ c = "_"

\* String.prototype.toLowerCase on one character
LowerChar(c) ==
  IF \E i \in 1..26 : UpperLetters[i] = c
    THEN LowerLetters[CHOOSE i \in 1..26 : UpperLetters[i] = c]
    ELSE c

\* two code units outside ASCII, each written as one element of a text:
\* U+0130 LATIN CAPITAL LETTER I WITH DOT ABOVE, whose lower case is the two code
\* units U+0069 U+0307, and U+0307 COMBINING DOT ABOVE
LatinCapitalIDotted == "U+0130"
CombiningDotAbove == "U+0307"

\* a position of a text that a replacement leaves empty; no character is ""
Removed == ""
IsKept(c) == c # Removed
\* the text without its empty positions
Kept(s) == SelectSeq(s, IsKept)

\* String.prototype.toLowerCase: every code unit maps to its lower case, which is
\* one code unit except for U+0130; positions 2i-1 and 2i hold the image of s[i]
toLowerCase(s) ==
  Kept([k \in 1..(2 * Len(s)) |->
          LET c == s[(k + 1) \div 2]
          IN IF k % 2 = 1
               THEN (IF c = LatinCapitalIDotted THEN "i" ELSE LowerChar(c))
               ELSE (IF c = LatinCapitalIDotted THEN CombiningDotAbove ELSE Removed)])

RECURSIVE TrimStart(_)
TrimStart(s) ==
  IF s = <<>> THEN <<>>
  ELSE IF Head(s) \in WhiteSpace THEN TrimStart(Tail(s)) ELSE s

RECURSIVE TrimEnd(_)
TrimEnd(s) ==
  IF s = <<>> THEN <<>>
  ELSE IF s[Len(s)] \in WhiteSpace THEN TrimEnd(SubSeq(s, 1, Len(s) - 1)) ELSE s

\* String.prototype.trim
trim(s) == TrimEnd(TrimStart(s))

\* String.prototype.slice(0, n)
slice(s, n) == SubSeq(s, 1, Min(Len(s), n))

\* String.prototype.includes
includes(s, sub) ==
  \E i \in 0..(Len(s) - Len(sub)) : SubSeq(s, i + 1, i + Len(sub)) = sub

(***************************************************************************)
(* JavaScript values that reach the engine from JSON payloads.             *)
(***************************************************************************)
JsString(s) == [t |-> "string", s |-> s, n |-> FracZero]
JsNumber(x) == [t |-> "number", s |-> <<>>, n |-> x]
JsUndefined == [t |-> "undefined", s |-> <<>>, n |-> FracZero]
JsObject == [t |-> "object", s |-> <<>>, n |-> FracZero]

\* function sanitizePlainText(value, maxLength)
sanitizePlainText(value, maxLength) ==
  IF value.t # "string" THEN <<>> ELSE slice(trim(value.s), maxLength)

(***************************************************************************)
(* Normalizer                                                              *)
(***************************************************************************)
\* the alternation (private|pvt|ltd|limited|india|inc|llp|co), in its order
SuffixWords ==
  << <<"p","r","i","v","a","t","e">>,
     <<"p","v","t">>,
     <<"l","t","d">>,
     <<"l","i","m","i","t","e","d">>,
     <<"i","n","d","i","a">>,
     <<"i","n","c">>,
     <<"l","l","p">>,
     <<"c","o">> >>

\* s.replace(/[class]+/g, ' '): every maximal run of class characters becomes one
\* space, written at the first position of the run
ReplaceRuns(s, class) ==
  Kept([i \in 1..Len(s) |->
          IF s[i] \notin class THEN s[i]
          ELSE IF i = 1 \/ s[i - 1] \notin class THEN " "
          ELSE Removed])

\* the alternative of /\b(private|...|co)\b/ that matches at position i, 0 if none
SuffixWordAt(s, i) ==
  LET boundaryBefore == i = 1 \/ ~IsWordChar(s[i - 1])
      Matches(w) ==
        /\ i + Len(w) - 1 <= Len(s)
        /\ SubSeq(s, i, i + Len(w) - 1) = w
        /\ (i + Len(w) > Len(s) \/ ~IsWordChar(s[i + Len(w)]))
      hits == {k \in 1..Len(SuffixWords) : Matches(SuffixWords[k])}
  IN IF boundaryBefore /\ hits # {}
       THEN CHOOSE k \in hits : \A j \in hits : k <= j
       ELSE 0

\* the length of the longest alternative
LongestSuffixWord == 7
\* position i lies inside a match that starts before it
InsideSuffixWord(s, i) ==
  \E j \in Max(1, i - LongestSuffixWord + 1)..(i - 1) :
    SuffixWordAt(s, j) # 0 /\ i < j + Len(SuffixWords[SuffixWordAt(s, j)])

\* s.replace(/\b(private|pvt|ltd|limited|india|inc|llp|co)\b/g, ' '): a match is a whole
\* run of word characters, so matches do not overlap and no match starts inside
\* another; the space is written at the first position of the match
ReplaceSuffixWords(s) ==
  Kept([i \in 1..Len(s) |->
          IF SuffixWordAt(s, i) # 0 THEN " "
          ELSE IF InsideSuffixWord(s, i) THEN Removed
          ELSE s[i]])

\* function normalizeMerchantText(value); value is a string, null and '' alike
normalizeMerchantText(value) ==
  LET normalized == toLowerCase(sanitizePlainText(JsString(value), 200))
  IN IF normalized = <<>> THEN <<>>
     ELSE trim(ReplaceRuns(ReplaceSuffixWords(ReplaceRuns(normalized, PunctuationClass)),
                           WhiteSpace))

(***************************************************************************)
(* Similarity scorer                                                       *)
(***************************************************************************)
\* one row of the matrix: cur holds matrix[row][0..Len(cur)-1]
RECURSIVE LevenshteinRow(_, _, _, _)
LevenshteinRow(prev, a, bc, cur) ==
  IF Len(cur) = Len(a) + 1 THEN cur
  ELSE LET col == Len(cur)
           cost == IF a[col] = bc THEN 0 ELSE 1
           cell == Min(Min(prev[col + 1] + 1, cur[col] + 1), prev[col] + cost)
       IN LevenshteinRow(prev, a, bc, Append(cur, cell))

RECURSIVE LevenshteinRows(_, _, _, _)
LevenshteinRows(prev, a, b, row) ==
  IF row > Len(b) THEN prev
  ELSE LevenshteinRows(LevenshteinRow(prev, a, b[row], <<row>>), a, b, row + 1)

RECURSIVE CountTo(_, _)
CountTo(from, to) == IF from > to THEN <<>> ELSE <<from>> \o CountTo(from + 1, to)

\* function levenshteinDistance(a, b)
levenshteinDistance(a, b) ==
  IF a = b THEN 0
  ELSE IF a = <<>> THEN Len(b)
  ELSE IF b = <<>> THEN Len(a)
  ELSE LevenshteinRows(CountTo(0, Len(a)), a, b, 1)[Len(a) + 1]

\* a slip: the distance divided by the shorter length
similarityScore_MinLength(a, b) ==
  IF a = <<>> \/ b = <<>> THEN FracZero
  ELSE IF includes(a, b) \/ includes(b, a) THEN Frac(99, 100)
  ELSE Frac(Min(Len(a), Len(b)) - levenshteinDistance(a, b), Min(Len(a), Len(b)))

\* function similarityScore(a, b)
similarityScore(a, b) ==
  IF a = <<>> \/ b = <<>> THEN FracZero
  ELSE IF includes(a, b) \/ includes(b, a) THEN Frac(99, 100)
  ELSE LET distance == levenshteinDistance(a, b)
           maxLength == Max(Len(a), Len(b))
       IN IF maxLength = 0 THEN FracZero
          ELSE Frac(maxLength - distance, maxLength)

(***************************************************************************)
(* Texts that occur as literals in the code                                *)
(***************************************************************************)
MODE_RULES_ONLY == <<"r","u","l","e","s","_","o","n","l","y">>
MODE_RULES_PLUS_LOCAL == <<"r","u","l","e","s","_","p","l","u","s","_","l","o","c","a","l">>
MODE_RULES_PLUS_LOCAL_THEN_OPENAI ==
  <<"r","u","l","e","s","_","p","l","u","s","_","l","o","c","a","l","_",
    "t","h","e","n","_","o","p","e","n","a","i">>
MODE_RULES_PLUS_OPENAI ==
  <<"r","u","l","e","s","_","p","l","u","s","_","o","p","e","n","a","i">>
UNCATEGORIZED == <<"U","n","c","a","t","e","g","o","r","i","z","e","d">>
SOURCE_SEED == <<"s","e","e","d">>
SOURCE_USER_CORRECTION ==
  <<"u","s","e","r","_","c","o","r","r","e","c","t","i","o","n">>

EXPENSE_CATEGORIES ==
  << <<"F","o","o","d">>,
     <<"D","i","n","i","n","g">>,
     <<"C","o","f","f","e","e">>,
     <<"G","r","o","c","e","r","i","e","s">>,
     <<"R","e","n","t">>,
     <<"H","o","m","e">>,
     <<"U","t","i","l","i","t","i","e","s">>,
     <<"B","i","l","l","s">>,
     <<"I","n","t","e","r","n","e","t">>,
     <<"M","o","b","i","l","e">>,
     <<"T","r","a","n","s","p","o","r","t">>,
     <<"F","u","e","l">>,
     <<"P","a","r","k","i","n","g">>,
     <<"T","r","a","v","e","l">>,
     <<"S","u","b","s","c","r","i","p","t","i","o","n">>,
     <<"I","n","s","u","r","a","n","c","e">>,
     <<"H","e","a","l","t","h">>,
     <<"P","h","a","r","m","a","c","y">>,
     <<"E","d","u","c","a","t","i","o","n">>,
     <<"S","h","o","p","p","i","n","g">>,
     <<"B","e","a","u","t","y">>,
     <<"P","e","r","s","o","n","a","l"," ","C","a","r","e">>,
     <<"F","i","t","n","e","s","s">>,
     <<"E","n","t","e","r","t","a","i","n","m","e","n","t">>,
     <<"F","a","m","i","l","y">>,
     <<"C","h","i","l","d","c","a","r","e">>,
     <<"P","e","t","s">>,
     <<"E","M","I">>,
     <<"L","o","a","n">>,
     <<"T","a","x">>,
     <<"I","n","v","e","s","t","m","e","n","t">>,
     <<"C","h","a","r","i","t","y">>,
     <<"G","i","f","t","s">>,
     <<"M","i","s","c">>,
     <<"U","n","c","a","t","e","g","o","r","i","z","e","d">> >>

KeywordRules ==
  << [category |-> <<"R","e","n","t">>,
      keywords |-> << <<"r","e","n","t">>, <<"h","o","u","s","e"," ","r","e","n","t">>, <<"f","l","a","t"," ","r","e","n","t">>, <<"l","a","n","d","l","o","r","d">>, <<"l","e","a","s","e">> >>],
     [category |-> <<"E","M","I">>,
      keywords |-> << <<"e","m","i">>, <<"i","n","s","t","a","l","m","e","n","t">>, <<"i","n","s","t","a","l","l","m","e","n","t">>, <<"m","o","n","t","h","l","y"," ","i","n","s","t","a","l","l","m","e","n","t">> >>],
     [category |-> <<"L","o","a","n">>,
      keywords |-> << <<"l","o","a","n">>, <<"r","e","p","a","y","m","e","n","t">>, <<"p","e","r","s","o","n","a","l"," ","l","o","a","n">>, <<"h","o","m","e"," ","l","o","a","n">>, <<"c","a","r"," ","l","o","a","n">> >>],
     [category |-> <<"T","a","x">>,
      keywords |-> << <<"t","a","x">>, <<"g","s","t">>, <<"i","n","c","o","m","e"," ","t","a","x">>, <<"t","d","s">>, <<"p","r","o","p","e","r","t","y"," ","t","a","x">> >>],
     [category |-> <<"I","n","v","e","s","t","m","e","n","t">>,
      keywords |-> << <<"s","i","p">>, <<"m","u","t","u","a","l"," ","f","u","n","d">>, <<"s","t","o","c","k">>, <<"d","e","m","a","t">>, <<"i","n","v","e","s","t","m","e","n","t">> >>],
     [category |-> <<"I","n","s","u","r","a","n","c","e">>,
      keywords |-> << <<"i","n","s","u","r","a","n","c","e">>, <<"p","r","e","m","i","u","m">>, <<"l","i","c">>, <<"h","e","a","l","t","h"," ","c","o","v","e","r">> >>],
     [category |-> <<"U","t","i","l","i","t","i","e","s">>,
      keywords |-> << <<"e","l","e","c","t","r","i","c","i","t","y">>, <<"w","a","t","e","r"," ","b","i","l","l">>, <<"g","a","s"," ","b","i","l","l">>, <<"u","t","i","l","i","t","y">> >>],
     [category |-> <<"I","n","t","e","r","n","e","t">>,
      keywords |-> << <<"b","r","o","a","d","b","a","n","d">>, <<"i","n","t","e","r","n","e","t">>, <<"w","i","f","i">>, <<"f","i","b","e","r">>, <<"j","i","o","f","i","b","e","r">> >>],
     [category |-> <<"M","o","b","i","l","e">>,
      keywords |-> << <<"m","o","b","i","l","e"," ","r","e","c","h","a","r","g","e">>, <<"p","r","e","p","a","i","d">>, <<"p","o","s","t","p","a","i","d">>, <<"a","i","r","t","e","l">>, <<"j","i","o">>, <<"v","i">> >>],
     [category |-> <<"B","i","l","l","s">>,
      keywords |-> << <<"b","i","l","l"," ","p","a","y","m","e","n","t">>, <<"i","n","v","o","i","c","e"," ","p","a","y","m","e","n","t">>, <<"d","u","e"," ","p","a","y","m","e","n","t">> >>],
     [category |-> <<"G","r","o","c","e","r","i","e","s">>,
      keywords |-> << <<"g","r","o","c","e","r","y">>, <<"s","u","p","e","r","m","a","r","k","e","t">>, <<"b","i","g","b","a","s","k","e","t">>, <<"d","m","a","r","t">>, <<"b","l","i","n","k","i","t">>, <<"z","e","p","t","o">> >>],
     [category |-> <<"F","o","o","d">>,
      keywords |-> << <<"s","w","i","g","g","y">>, <<"z","o","m","a","t","o">>, <<"f","o","o","d"," ","o","r","d","e","r">>, <<"m","e","a","l">>, <<"l","u","n","c","h">>, <<"d","i","n","n","e","r">> >>],
     [category |-> <<"D","i","n","i","n","g">>,
      keywords |-> << <<"r","e","s","t","a","u","r","a","n","t">>, <<"d","i","n","e">>, <<"d","i","n","i","n","g">>, <<"e","a","t","e","r","y">>, <<"c","a","f","e"," ","m","e","a","l">> >>],
     [category |-> <<"C","o","f","f","e","e">>,
      keywords |-> << <<"c","o","f","f","e","e">>, <<"s","t","a","r","b","u","c","k","s">>, <<"c","o","s","t","a">>, <<"b","a","r","i","s","t","a">> >>],
     [category |-> <<"T","r","a","n","s","p","o","r","t">>,
      keywords |-> << <<"u","b","e","r">>, <<"o","l","a">>, <<"m","e","t","r","o">>, <<"b","u","s">>, <<"t","r","a","i","n">>, <<"t","a","x","i">>, <<"a","u","t","o">> >>],
     [category |-> <<"F","u","e","l">>,
      keywords |-> << <<"f","u","e","l">>, <<"p","e","t","r","o","l">>, <<"d","i","e","s","e","l">>, <<"c","n","g">>, <<"g","a","s"," ","s","t","a","t","i","o","n">> >>],
     [category |-> <<"P","a","r","k","i","n","g">>,
      keywords |-> << <<"p","a","r","k","i","n","g">>, <<"t","o","l","l">>, <<"f","a","s","t","a","g">> >>],
     [category |-> <<"T","r","a","v","e","l">>,
      keywords |-> << <<"f","l","i","g","h","t">>, <<"h","o","t","e","l">>, <<"a","i","r","b","n","b">>, <<"t","r","i","p">>, <<"b","o","o","k","i","n","g">>, <<"m","a","k","e","m","y","t","r","i","p">>, <<"g","o","i","b","i","b","o">> >>],
     [category |-> <<"S","u","b","s","c","r","i","p","t","i","o","n">>,
      keywords |-> << <<"n","e","t","f","l","i","x">>, <<"s","p","o","t","i","f","y">>, <<"p","r","i","m","e">>, <<"s","u","b","s","c","r","i","p","t","i","o","n">>, <<"y","o","u","t","u","b","e">>, <<"h","o","t","s","t","a","r">> >>],
     [category |-> <<"H","e","a","l","t","h">>,
      keywords |-> << <<"h","o","s","p","i","t","a","l">>, <<"c","l","i","n","i","c">>, <<"m","e","d","i","c","i","n","e">>, <<"d","o","c","t","o","r">>, <<"h","e","a","l","t","h"," ","c","h","e","c","k">> >>],
     [category |-> <<"P","h","a","r","m","a","c","y">>,
      keywords |-> << <<"p","h","a","r","m","a","c","y">>, <<"a","p","o","l","l","o">>, <<"m","e","d","p","l","u","s">>, <<"c","h","e","m","i","s","t">>, <<"d","r","u","g"," ","s","t","o","r","e">> >>],
     [category |-> <<"E","d","u","c","a","t","i","o","n">>,
      keywords |-> << <<"c","o","u","r","s","e">>, <<"t","u","i","t","i","o","n">>, <<"s","c","h","o","o","l"," ","f","e","e">>, <<"c","o","l","l","e","g","e"," ","f","e","e">>, <<"u","d","e","m","y">>, <<"c","o","u","r","s","e","r","a">> >>],
     [category |-> <<"S","h","o","p","p","i","n","g">>,
      keywords |-> << <<"a","m","a","z","o","n">>, <<"f","l","i","p","k","a","r","t">>, <<"m","y","n","t","r","a">>, <<"s","h","o","p","p","i","n","g">>, <<"p","u","r","c","h","a","s","e">> >>],
     [category |-> <<"B","e","a","u","t","y">>,
      keywords |-> << <<"s","a","l","o","n">>, <<"s","p","a">>, <<"b","e","a","u","t","y">>, <<"g","r","o","o","m","i","n","g">>, <<"c","o","s","m","e","t","i","c">> >>],
     [category |-> <<"P","e","r","s","o","n","a","l"," ","C","a","r","e">>,
      keywords |-> << <<"t","o","i","l","e","t","r","i","e","s">>, <<"s","k","i","n","c","a","r","e">>, <<"h","a","i","r","c","a","r","e">>, <<"s","e","l","f"," ","c","a","r","e">> >>],
     [category |-> <<"F","i","t","n","e","s","s">>,
      keywords |-> << <<"g","y","m">>, <<"w","o","r","k","o","u","t">>, <<"f","i","t","n","e","s","s">>, <<"y","o","g","a"," ","c","l","a","s","s">> >>],
     [category |-> <<"E","n","t","e","r","t","a","i","n","m","e","n","t">>,
      keywords |-> << <<"m","o","v","i","e">>, <<"c","i","n","e","m","a">>, <<"g","a","m","e">>, <<"c","o","n","c","e","r","t">>, <<"o","t","t">> >>],
     [category |-> <<"F","a","m","i","l","y">>,
      keywords |-> << <<"f","a","m","i","l","y">>, <<"p","a","r","e","n","t","s">>, <<"h","o","u","s","e","h","o","l","d"," ","s","u","p","p","o","r","t">> >>],
     [category |-> <<"C","h","i","l","d","c","a","r","e">>,
      keywords |-> << <<"c","h","i","l","d","c","a","r","e">>, <<"d","a","y","c","a","r","e">>, <<"b","a","b","y">>, <<"k","i","d","s"," ","c","l","a","s","s">> >>],
     [category |-> <<"P","e","t","s">>,
      keywords |-> << <<"p","e","t">>, <<"d","o","g"," ","f","o","o","d">>, <<"c","a","t"," ","f","o","o","d">>, <<"v","e","t","e","r","i","n","a","r","y">>, <<"v","e","t">> >>],
     [category |-> <<"C","h","a","r","i","t","y">>,
      keywords |-> << <<"d","o","n","a","t","i","o","n">>, <<"c","h","a","r","i","t","y">>, <<"n","g","o">>, <<"f","u","n","d","r","a","i","s","e","r">> >>],
     [category |-> <<"G","i","f","t","s">>,
      keywords |-> << <<"g","i","f","t">>, <<"p","r","e","s","e","n","t">>, <<"b","i","r","t","h","d","a","y"," ","g","i","f","t">>, <<"a","n","n","i","v","e","r","s","a","r","y"," ","g","i","f","t">> >>],
     [category |-> <<"H","o","m","e">>,
      keywords |-> << <<"f","u","r","n","i","t","u","r","e">>, <<"a","p","p","l","i","a","n","c","e">>, <<"h","o","m","e"," ","d","e","c","o","r">>, <<"h","o","u","s","e","h","o","l","d"," ","i","t","e","m">> >>] >>

(***************************************************************************)
(* CategorizationResult: category (text), confidence (fraction), reason.   *)
(* A reason is a JavaScript value: normally a string, given here as the    *)
(* code's message template and the text spliced into it.                   *)
(***************************************************************************)
Reason(text, arg) == [type |-> "string", text |-> text, arg |-> arg]
NonStringReason(type) == [type |-> type, text |-> "", arg |-> <<>>]
Result(category, confidence, reason) ==
  [category |-> category, confidence |-> confidence, reason |-> reason]
\* the JavaScript null a tier returns for "no result"
Null == Result(<<>>, FracZero, NonStringReason("null"))

\* function normalizeCategory(category)
normalizeCategory(category) ==
  LET normalized == sanitizePlainText(category, 60)
      exact == {i \in 1..Len(EXPENSE_CATEGORIES) :
                  toLowerCase(EXPENSE_CATEGORIES[i]) = toLowerCase(normalized)}
  IN IF normalized = <<>> THEN <<>>
     ELSE IF exact # {}
       THEN EXPENSE_CATEGORIES[CHOOSE i \in exact : \A j \in exact : i <= j]
       ELSE normalized

(***************************************************************************)
(* Keyword rule engine                                                     *)
(***************************************************************************)
RuleMatches(rule, text) ==
  \E k \in 1..Len(rule.keywords) : includes(text, rule.keywords[k])

\* a slip: the last matching rule wins
keywordCategoryInference_LastMatch(description, merchant) ==
  LET text == toLowerCase(description \o <<" ">> \o merchant)
      hits == {i \in 1..Len(KeywordRules) : RuleMatches(KeywordRules[i], text)}
  IN IF text = <<>> \/ hits = {} THEN Null
     ELSE LET rule == KeywordRules[CHOOSE i \in hits : \A j \in hits : i >= j]
          IN Result(rule.category, Frac(82, 100),
                    Reason("Matched keyword rule for %s.", rule.category))

\* function keywordCategoryInference({ description, merchant })
keywordCategoryInference(description, merchant) ==
  LET text == toLowerCase(description \o <<" ">> \o merchant)
      hits == {i \in 1..Len(KeywordRules) : RuleMatches(KeywordRules[i], text)}
  IN IF text = <<>> \/ hits = {} THEN Null
     ELSE LET rule == KeywordRules[CHOOSE i \in hits : \A j \in hits : i <= j]
          IN Result(rule.category, Frac(82, 100),
                    Reason("Matched keyword rule for %s.", rule.category))

(***************************************************************************)
(* Merchant dictionary: rows of merchant_category_map                      *)
(***************************************************************************)
\* user_id NULL: the entry is global
GLOBAL == "global"

MapRow(id, userId, merchantKeyword, normalizedKeyword, category, confidenceScore, source, hitCount, lastMatchedAt, isActive, updatedAt) ==
  [id |-> id, userId |-> userId, merchantKeyword |-> merchantKeyword,
   normalizedKeyword |-> normalizedKeyword, category |-> category,
   confidenceScore |-> confidenceScore, source |-> source, hitCount |-> hitCount,
   lastMatchedAt |-> lastMatchedAt, isActive |-> isActive, updatedAt |-> updatedAt]

\* take: 300 of the findMany call
TAKE_ROWS == 300

\* a slip: the owner of an entry is not looked at
VisibleIds_AnyOwner(rows, userId) == {i \in 1..Len(rows) : rows[i].isActive}

\* where: { isActive: true, OR: [{ userId: null }, { userId }] }
VisibleIds(rows, userId) ==
  {i \in 1..Len(rows) :
     rows[i].isActive /\ (rows[i].userId = GLOBAL \/ rows[i].userId = userId)}

\* orderBy: [{ confidenceScore: 'desc' }, { updatedAt: 'desc' }]
InScanOrder(r1, r2) ==
  \/ FracLt(r2.confidenceScore, r1.confidenceScore)
  \/ /\ FracEq(r1.confidenceScore, r2.confidenceScore)
     /\ r1.updatedAt >= r2.updatedAt

\* a slip: the call has no take
FindManyResults_NoLimit(rows, userId, limit) ==
  LET ids == VisibleIds(rows, userId)
  IN {[k \in 1..Cardinality(ids) |-> rows[(CHOOSE r \in ranked : r[1] = k - 1)[2]]] :
        ranked \in {{<<Cardinality({j \in ids : j # i /\ InScanOrder(rows[j], rows[i])}), i>> :
                       i \in ids}}}

\* the results the store may give for the findMany call: every ordering of the
\* visible rows that respects orderBy (rows that tie come in any order), cut at limit
FindManyResults(rows, userId, limit) ==
  LET ids == VisibleIds(rows, userId)
      n == Cardinality(ids)
      tied == \E i, j \in ids :
                i # j /\ InScanOrder(rows[i], rows[j]) /\ InScanOrder(rows[j], rows[i])
      \* without ties: each row with the number of rows that come before it
      ranked == {<<Cardinality({j \in ids : j # i /\ InScanOrder(rows[j], rows[i])}), i>> :
                   i \in ids}
      orders == {o \in [1..n -> ids] :
                   /\ \A i, j \in 1..n : i # j => o[i] # o[j]
                   /\ \A i, j \in 1..n : i < j => InScanOrder(rows[o[i]], rows[o[j]])}
  IN IF tied
       THEN {[k \in 1..Min(n, limit) |-> rows[o[k]]] : o \in orders}
       ELSE {[k \in 1..Min(n, limit) |-> rows[(CHOOSE r \in rs : r[1] = k - 1)[2]]] :
               rs \in {ranked}}

\* Number(x || fallback) for a stored confidence_score (DOUBLE PRECISION NOT NULL)
NumberOr(x, fallback) == IF x.n = 0 THEN fallback ELSE x

NoMatch ==
  [id |-> 0, category |-> <<>>, confidence |-> FracZero, weightedScore |-> FracZero,
   source |-> <<>>]

\* the body of the inner loop of findMerchantCategoryInference for one
\* (mapItem, candidateText) pair
ScorePair(mapItem, candidateText, minScore, bestMatch) ==
  LET normalizedKeyword ==
        normalizeMerchantText(IF mapItem.normalizedKeyword # <<>>
                                THEN mapItem.normalizedKeyword
                                ELSE mapItem.merchantKeyword)
      score == similarityScore(candidateText, normalizedKeyword)
      weightedScore == FracMul(score, NumberOr(mapItem.confidenceScore, Frac(8, 10)))
  IN IF normalizedKeyword = <<>> THEN bestMatch
     ELSE IF FracLt(weightedScore, minScore) THEN bestMatch
     ELSE IF bestMatch = NoMatch \/ FracLt(bestMatch.weightedScore, weightedScore)
       THEN [id |-> mapItem.id,
             category |-> LET c == normalizeCategory(JsString(mapItem.category))
                          IN IF c # <<>> THEN c ELSE UNCATEGORIZED,
             confidence |-> FracMin(Frac(99, 100), weightedScore),
             weightedScore |-> weightedScore,
             source |-> IF mapItem.source # <<>> THEN mapItem.source ELSE SOURCE_SEED]
       ELSE bestMatch

\* the iterations lo..hi of the two nested loops, run one after the other from
\* bestMatch: iteration k is for entry k \div Len(candidates) + 1 and candidate
\* k % Len(candidates) + 1; the iterations lo..mid run first and those after mid
\* start from the bestMatch they leave
RECURSIVE ScanRange(_, _, _, _, _, _)
ScanRange(maps, candidates, minScore, lo, hi, bestMatch) ==
  IF lo > hi THEN bestMatch
  ELSE IF lo = hi
    THEN ScorePair(maps[(lo \div Len(candidates)) + 1],
                   candidates[(lo % Len(candidates)) + 1],
                   minScore, bestMatch)
    ELSE LET mid == (lo + hi) \div 2
         IN CHOOSE last \in {ScanRange(maps, candidates, minScore, mid + 1, hi, firstHalf) :
                               firstHalf \in {ScanRange(maps, candidates, minScore,
                                                        lo, mid, bestMatch)}} : TRUE

ScanPairs(maps, candidates, minScore, k, bestMatch) ==
  ScanRange(maps, candidates, minScore, k, Len(maps) * Len(candidates) - 1, bestMatch)

\* [normalizedMerchant, normalizedDescription].filter(Boolean)
Candidates(merchant, description) ==
  SelectSeq(<<normalizeMerchantText(merchant), normalizeMerchantText(description)>>,
            LAMBDA c : c # <<>>)

(***************************************************************************)
(* Adapter payloads                                                        *)
(***************************************************************************)
DigitSeq == <<"0","1","2","3","4","5","6","7","8","9">>
DigitValue(c) == (CHOOSE i \in 1..10 : DigitSeq[i] = c) - 1

RECURSIVE DecimalValue(_, _)
DecimalValue(s, acc) ==
  IF s = <<>> THEN acc ELSE DecimalValue(Tail(s), 10 * acc + DigitValue(Head(s)))

\* Number(value): NaN for undefined, objects and non-numeric strings
Number(value) ==
  CASE value.t = "number" -> [nan |-> FALSE, v |-> value.n]
    [] value.t = "string" ->
         LET s == trim(value.s)
         IN IF \A i \in 1..Len(s) : s[i] \in Digits
              THEN [nan |-> FALSE, v |-> Frac(DecimalValue(s, 0), 1)]
              ELSE [nan |-> TRUE, v |-> FracZero]
    [] OTHER -> [nan |-> TRUE, v |-> FracZero]

\* Number(value) || fallback
NumberOrDefault(value, fallback) ==
  LET x == Number(value)
  IN IF x.nan \/ x.v.n = 0 THEN fallback ELSE x.v

\* sanitizePlainText(value, 120) || fallback
ReasonOrDefault(value, fallback) ==
  LET text == sanitizePlainText(value, 120)
  IN IF text # <<>> THEN Reason("%s", text) ELSE Reason(fallback, <<>>)

Payload(category, confidence, reason) ==
  [category |-> category, confidence |-> confidence, reason |-> reason]
\* {} : what response.json().catch(() => ({})) gives for a body that is not JSON
EmptyPayload == Payload(JsUndefined, JsUndefined, JsUndefined)

\* a settled fetch: kind "reject" (transport error or abort) or "response"
FetchRejected ==
  [kind |-> "reject", ok |-> FALSE, json |-> FALSE, payload |-> EmptyPayload,
   errorMessage |-> JsUndefined, content |-> "undefined"]
\* no fetch has settled
NoResponse ==
  [kind |-> "none", ok |-> FALSE, json |-> FALSE, payload |-> EmptyPayload,
   errorMessage |-> JsUndefined, content |-> "undefined"]
\* Local Adapter response: status ok or not, body JSON or not
LocalResponse(ok, json, payload) ==
  [kind |-> "response", ok |-> ok, json |-> json,
   payload |-> IF json THEN payload ELSE EmptyPayload,
   errorMessage |-> JsUndefined, content |-> "undefined"]
\* Remote Adapter response: payload.error.message, and choices[0].message.content,
\* which is absent ("undefined"), a string that is not JSON ("malformed") or a string
\* that parses ("json") to payload
RemoteResponse(ok, errorMessage, content, payload) ==
  [kind |-> "response", ok |-> ok, json |-> TRUE,
   payload |-> IF content = "json" THEN payload ELSE EmptyPayload,
   errorMessage |-> errorMessage, content |-> content]

\* Remote Adapter response whose body cannot be read as JSON (not JSON, or the
\* read was aborted): response.json().catch(() => ({})) gives {}
RemoteBodyNotJson(ok) ==
  [kind |-> "response", ok |-> ok, json |-> FALSE, payload |-> EmptyPayload,
   errorMessage |-> JsUndefined, content |-> "undefined"]

\* categorizeExpenseWithLocalModel from the settled fetch on
LocalModelResult(response) ==
  IF response.kind = "reject" THEN Null
  ELSE IF ~response.ok THEN Null
  ELSE LET payload == response.payload
           category == normalizeCategory(payload.category)
       IN IF category = <<>> THEN Null
          ELSE Result(category,
                      NumberOrDefault(payload.confidence, Frac(7, 10)),
                      ReasonOrDefault(payload.reason, "Categorized via local model."))

AiFallback == Result(UNCATEGORIZED, Frac(2, 10), Reason("AI timeout/error; fallback category applied.", <<>>))

\* payload?.error?.message || 'AI request failed; fallback category applied.'
UpstreamReason(errorMessage) ==
  IF errorMessage.t = "string" /\ errorMessage.s # <<>> THEN Reason("%s", errorMessage.s)
  ELSE IF errorMessage.t = "object" \/ (errorMessage.t = "number" /\ errorMessage.n.n # 0)
    THEN NonStringReason(errorMessage.t)
  ELSE Reason("AI request failed; fallback category applied.", <<>>)

\* categorizeExpenseWithAI from the settled fetch on
AiResult(response) ==
  IF response.kind = "reject" THEN AiFallback
  ELSE IF ~response.ok
    THEN Result(UNCATEGORIZED, Frac(2, 10), UpstreamReason(response.errorMessage))
  ELSE IF response.content = "malformed" THEN AiFallback
  ELSE LET parsed == response.payload
           normalizedCategory == normalizeCategory(parsed.category)
       IN Result(IF normalizedCategory # <<>> THEN normalizedCategory ELSE UNCATEGORIZED,
                 NumberOrDefault(parsed.confidence, Frac(5, 10)),
                 ReasonOrDefault(parsed.reason, "Categorized by AI."))

(***************************************************************************)
(* Inputs of the model                                                     *)
(***************************************************************************)
Txt_Swiggy == <<"S","w","i","g","g","y">>
Txt_swiggy == <<"s","w","i","g","g","y">>
Txt_Qwik == <<"Q","w","i","k">>
Txt_qwik == <<"q","w","i","k">>
Txt_PvtLtd == <<"P","v","t","."," ","L","t","d">>
Txt_lunch == <<"l","u","n","c","h">>
Txt_Food == <<"F","o","o","d">>
Txt_food == <<"f","o","o","d">>
Txt_Rent == <<"R","e","n","t">>
Txt_Dining == <<"D","i","n","i","n","g">>
Txt_Shopping == <<"S","h","o","p","p","i","n","g">>
Txt_Crypto == <<"C","r","y","p","t","o">>
Txt_high == <<"h","i","g","h">>
Txt_ok == <<"o","k">>
Txt_quota == <<"q","u","o","t","a">>
Txt_RulesOnlyPadded == <<" ","R","u","l","e","s","_","O","n","l","y"," ">>

\* number of categorize and correction requests in one behaviour
MaxOps == 2

ProcOrder == <<"p1", "p2">>
Procs == {ProcOrder[i] : i \in 1..Len(ProcOrder)}
Slot(p) == CHOOSE i \in 1..Len(ProcOrder) : ProcOrder[i] = p
Users == {"u1", "u2"}
Merchants == {<<>>, Txt_Swiggy, Txt_Qwik, Txt_PvtLtd}
Descriptions == {<<>>, Txt_lunch}
\* the expenses a correction is made on: merchant, description, category
Expenses ==
  { [merchant |-> Txt_Qwik, description |-> <<>>, category |-> Txt_Rent],
    [merchant |-> Txt_Qwik, description |-> <<>>, category |-> Txt_Food],
    [merchant |-> Txt_PvtLtd, description |-> Txt_lunch, category |-> Txt_Rent] }
CorrectionCategories == {Txt_Food, Txt_Rent}
\* Prisma error codes: P2021 "table does not exist", P1001 "cannot reach database"
StoreErrors == {"P2021", "P1001"}

\* process.env: CATEGORIZATION_MODE (<<>> is unset), MERCHANT_MATCH_MIN_SCORE
\* (FracZero is unset), whether LOCAL_CATEGORIZER_URL and OPENAI_API_KEY are set
Env(mode, minScore, localUrl, apiKey) ==
  [CATEGORIZATION_MODE |-> mode, MERCHANT_MATCH_MIN_SCORE |-> minScore,
   LOCAL_CATEGORIZER_URL |-> localUrl, OPENAI_API_KEY |-> apiKey]

EnvSettings ==
  { Env(Txt_RulesOnlyPadded, FracZero, TRUE, TRUE),
    Env(MODE_RULES_PLUS_LOCAL, FracZero, TRUE, TRUE),
    Env(MODE_RULES_PLUS_LOCAL, FracZero, FALSE, TRUE),
    Env(MODE_RULES_PLUS_LOCAL_THEN_OPENAI, FracZero, TRUE, TRUE),
    Env(MODE_RULES_PLUS_LOCAL_THEN_OPENAI, FracZero, FALSE, TRUE),
    Env(MODE_RULES_PLUS_LOCAL_THEN_OPENAI, FracZero, TRUE, FALSE),
    Env(MODE_RULES_PLUS_OPENAI, FracZero, TRUE, TRUE),
    Env(MODE_RULES_PLUS_OPENAI, FracZero, TRUE, FALSE),
    Env(<<>>, FracZero, TRUE, TRUE) }

LocalResponses ==
  { LocalResponse(TRUE, TRUE, Payload(JsString(Txt_food), JsNumber(Frac(9, 10)), JsString(Txt_ok))),
    LocalResponse(TRUE, TRUE, Payload(JsString(Txt_Crypto), JsNumber(Frac(5, 1)), JsUndefined)),
    LocalResponse(TRUE, TRUE, Payload(JsUndefined, JsString(Txt_high), JsString(Txt_ok))),
    LocalResponse(TRUE, FALSE, EmptyPayload),
    LocalResponse(FALSE, TRUE, Payload(JsString(Txt_food), JsNumber(Frac(9, 10)), JsString(Txt_ok))),
    FetchRejected }

RemoteResponses ==
  { RemoteResponse(TRUE, JsUndefined, "json",
                   Payload(JsString(Txt_food), JsNumber(Frac(9, 10)), JsString(Txt_ok))),
    RemoteResponse(TRUE, JsUndefined, "json",
                   Payload(JsString(Txt_Crypto), JsNumber(Frac(0 - 1, 1)), JsUndefined)),
    RemoteResponse(TRUE, JsUndefined, "json",
                   Payload(JsObject, JsString(Txt_high), JsObject)),
    RemoteResponse(TRUE, JsUndefined, "malformed", EmptyPayload),
    RemoteResponse(TRUE, JsUndefined, "undefined", EmptyPayload),
    RemoteResponse(FALSE, JsString(Txt_quota), "undefined", EmptyPayload),
    RemoteResponse(FALSE, JsObject, "undefined", EmptyPayload),
    RemoteResponse(FALSE, JsUndefined, "undefined", EmptyPayload),
    RemoteBodyNotJson(TRUE),
    FetchRejected }

\* what the Remote Adapter sees when the deadline aborts its fetch: the fetch
\* rejects, or, when the response head had arrived, the read of the body rejects
RemoteAbortOutcomes == {FetchRejected, RemoteBodyNotJson(TRUE), RemoteBodyNotJson(FALSE)}

\* rows present before the first request: id, userId, merchantKeyword,
\* normalizedKeyword, category, confidenceScore, source, hitCount, lastMatchedAt,
\* isActive, updatedAt
SeedQwik(id) ==
  MapRow(id, GLOBAL, Txt_Qwik, Txt_qwik, Txt_Shopping, Frac(1, 1), SOURCE_SEED, 0, 0, TRUE, id)
SeedSwiggy(id) ==
  MapRow(id, GLOBAL, Txt_Swiggy, Txt_swiggy, Txt_Dining, Frac(8, 10), SOURCE_SEED, 0, 0, TRUE, id)
OtherUsersQwik(id) ==
  MapRow(id, "u2", Txt_Qwik, Txt_qwik, Txt_Rent, Frac(95, 100), SOURCE_USER_CORRECTION, 0, 0, TRUE, id)
InactiveQwik(id) ==
  MapRow(id, "u1", Txt_Qwik, Txt_qwik, Txt_Rent, Frac(9, 10), SOURCE_USER_CORRECTION, 0, 0, FALSE, id)

SeedDictionaries ==
  { <<>>,
    <<SeedSwiggy(1), InactiveQwik(2)>>,
    <<SeedQwik(1), OtherUsersQwik(2)>> }

\* keywordCategoryInference on the texts of the requests, evaluated once
KeywordInference ==
  [description \in Descriptions, merchant \in Merchants |->
     keywordCategoryInference(description, merchant)]

(***************************************************************************)
(* State                                                                   *)
(***************************************************************************)
VARIABLES
  env,          \* process.env, read by the engine
  maps,         \* table merchant_category_map; a row's id is its index
  corrections,  \* table category_corrections
  clock,        \* the store's time, for updated_at, last_matched_at, created_at
  proc,         \* the requests in progress
  started,      \* number of requests started
  maxInFlight,  \* number of requests the behaviour lets run at the same time
  learned,      \* history: the corrections whose dictionary write resolved
  calc          \* a call of one of the pure functions: its arguments and its value

engine == <<env, maps, corrections, clock, proc, started, maxInFlight, learned>>
vars == <<env, maps, corrections, clock, proc, started, maxInFlight, learned, calc>>

\* const CATEGORIZATION_MODE = (process.env.CATEGORIZATION_MODE || 'rules_plus_openai').trim().toLowerCase()
CATEGORIZATION_MODE ==
  toLowerCase(trim(IF env.CATEGORIZATION_MODE # <<>>
                     THEN env.CATEGORIZATION_MODE
                     ELSE MODE_RULES_PLUS_OPENAI))

\* Number(process.env.MERCHANT_MATCH_MIN_SCORE || 0.72)
MinScore ==
  IF env.MERCHANT_MATCH_MIN_SCORE # FracZero
    THEN env.MERCHANT_MATCH_MIN_SCORE
    ELSE Frac(72, 100)

NoExisting == [id |-> 0, confidenceScore |-> FracZero]

\* no function call is being followed
NoCalc ==
  [fn |-> "none", a |-> <<>>, b |-> <<>>, step |-> 0, text |-> <<>>, again |-> <<>>,
   score |-> FracZero, result |-> Null]

Idle ==
  [pc |-> "idle", op |-> "none", userId |-> "", merchant |-> <<>>, description |-> <<>>,
   oldCategory |-> <<>>, newCategory |-> <<>>, bestMatch |-> NoMatch,
   learnMapping |-> FALSE, existing |-> NoExisting, localResult |-> Null,
   remoteResponse |-> NoResponse,
   result |-> Null, tier |-> "",
   error |-> "", trace |-> <<>>, before |-> [maps |-> <<>>, corrections |-> <<>>]]

InitStore ==
  /\ maps \in SeedDictionaries
  /\ corrections = <<>>
  /\ clock = Len(maps)
  /\ proc = [p \in Procs |-> Idle]
  /\ started = 0
  /\ learned = {}
  /\ calc = NoCalc

\* requests are served one after the other
Init ==
  /\ env \in EnvSettings
  /\ maxInFlight = 1
  /\ InitStore

(***************************************************************************)
(* categorizeExpense, between its awaits                                   *)
(***************************************************************************)
Returns(pr, result, tier) == [pr EXCEPT !.pc = "done", !.result = result, !.tier = tier]
Throws(pr, code) == [pr EXCEPT !.pc = "threw", !.error = code]
Logged(pr, event) == [pr EXCEPT !.trace = Append(@, event)]

Uncategorized(text) == Result(UNCATEGORIZED, Frac(2, 10), Reason(text, <<>>))

\* a slip: the request is sent without looking at OPENAI_API_KEY
categorizeExpenseWithAI_IgnoresKey(pr) ==
  LET fallback == KeywordInference[pr.description, pr.merchant]
      pr1 == Logged(Logged(pr, "ai"), "rules")
  IN IF fallback # Null THEN Returns(pr1, fallback, "rules")
     ELSE [Logged(pr1, "remoteFetch") EXCEPT !.pc = "remoteFetch"]

\* categorizeExpenseWithAI up to the fetch
categorizeExpenseWithAI(pr) ==
  LET fallback == KeywordInference[pr.description, pr.merchant]
      pr1 == Logged(Logged(pr, "ai"), "rules")
  IN IF fallback # Null THEN Returns(pr1, fallback, "rules")
     ELSE IF ~env.OPENAI_API_KEY
       THEN Returns(pr1, Uncategorized("OPENAI_API_KEY is not configured; applied fallback category."),
                    "fallback")
     ELSE [Logged(pr1, "remoteFetch") EXCEPT !.pc = "remoteFetch"]

\* a slip: rules_plus_local falls through to the Remote Adapter
AfterLocalModel_FallsThrough(pr, localResult) ==
  IF localResult # Null
    THEN Returns([pr EXCEPT !.localResult = localResult], localResult, "local")
    ELSE categorizeExpenseWithAI(pr)

\* a slip: the Local Adapter is called a second time when it gave nothing
AfterLocalModel_Retries(pr, localResult) ==
  IF localResult # Null
    THEN Returns([pr EXCEPT !.localResult = localResult], localResult, "local")
  ELSE IF Len(SelectSeq(pr.trace, LAMBDA e : e = "localFetch")) = 1
    THEN [Logged(pr, "localFetch") EXCEPT !.pc = "localFetch"]
  ELSE IF CATEGORIZATION_MODE = MODE_RULES_PLUS_LOCAL
    THEN Returns(pr, Uncategorized("No rules/local model match."), "fallback")
  ELSE categorizeExpenseWithAI(pr)

\* categorizeExpense after categorizeExpenseWithLocalModel gave localResult
AfterLocalModel(pr, localResult) ==
  IF localResult # Null
    THEN Returns([pr EXCEPT !.localResult = localResult], localResult, "local")
  ELSE IF CATEGORIZATION_MODE = MODE_RULES_PLUS_LOCAL
    THEN Returns(pr, Uncategorized("No rules/local model match."), "fallback")
  ELSE categorizeExpenseWithAI(pr)

\* categorizeExpenseWithLocalModel up to the fetch
categorizeExpenseWithLocalModel(pr) ==
  IF ~env.LOCAL_CATEGORIZER_URL THEN AfterLocalModel(Logged(pr, "local"), Null)
  ELSE [Logged(Logged(pr, "local"), "localFetch") EXCEPT !.pc = "localFetch"]

\* a slip: the keyword rules are not consulted before the mode tier
AfterDictionaryMiss_SkipsRules(pr) ==
  IF CATEGORIZATION_MODE = MODE_RULES_ONLY
    THEN Returns(pr, Uncategorized("No rules matched."), "fallback")
  ELSE IF CATEGORIZATION_MODE \in {MODE_RULES_PLUS_LOCAL, MODE_RULES_PLUS_LOCAL_THEN_OPENAI}
    THEN categorizeExpenseWithLocalModel(pr)
  ELSE categorizeExpenseWithAI(pr)

\* a slip: the rules_only branch is missing
AfterDictionaryMiss_NoRulesOnly(pr) ==
  LET fallback == KeywordInference[pr.description, pr.merchant]
      pr1 == Logged(pr, "rules")
  IN IF fallback # Null THEN Returns(pr1, fallback, "rules")
     ELSE IF CATEGORIZATION_MODE \in {MODE_RULES_PLUS_LOCAL, MODE_RULES_PLUS_LOCAL_THEN_OPENAI}
       THEN categorizeExpenseWithLocalModel(pr1)
     ELSE categorizeExpenseWithAI(pr1)

\* a slip: the Local Adapter is tried in rules_plus_openai as well
AfterDictionaryMiss_LocalFirst(pr) ==
  LET fallback == KeywordInference[pr.description, pr.merchant]
      pr1 == Logged(pr, "rules")
  IN IF fallback # Null THEN Returns(pr1, fallback, "rules")
     ELSE IF CATEGORIZATION_MODE = MODE_RULES_ONLY
       THEN Returns(pr1, Uncategorized("No rules matched."), "fallback")
     ELSE categorizeExpenseWithLocalModel(pr1)

\* categorizeExpense after findMerchantCategoryInference gave null
AfterDictionaryMiss(pr) ==
  LET fallback == KeywordInference[pr.description, pr.merchant]
      pr1 == Logged(pr, "rules")
  IN IF fallback # Null THEN Returns(pr1, fallback, "rules")
     ELSE IF CATEGORIZATION_MODE = MODE_RULES_ONLY
       THEN Returns(pr1, Uncategorized("No rules matched."), "fallback")
     ELSE IF CATEGORIZATION_MODE \in {MODE_RULES_PLUS_LOCAL, MODE_RULES_PLUS_LOCAL_THEN_OPENAI}
       THEN categorizeExpenseWithLocalModel(pr1)
     ELSE categorizeExpenseWithAI(pr1)

\* a request is taken by the first free slot, while fewer than maxInFlight run
Accepts(p) ==
  /\ proc[p].pc = "idle"
  /\ \A q \in Procs : proc[q].pc = "idle" => Slot(p) <= Slot(q)
  /\ Cardinality({q \in Procs : proc[q].pc # "idle"}) < maxInFlight
  /\ started < MaxOps

\* a request calls categorizeExpense; runs to the findMany call, or past
\* findMerchantCategoryInference when there is no candidate text
categorizeExpense(p, userId, merchant, description) ==
  /\ Accepts(p)
  /\ started' = started + 1
  /\ LET pr == [Idle EXCEPT !.op = "categorize", !.userId = userId,
                            !.merchant = merchant, !.description = description,
                            !.before = [maps |-> maps, corrections |-> corrections]]
     IN proc' = [proc EXCEPT ![p] =
                   IF Candidates(merchant, description) = <<>>
                     THEN AfterDictionaryMiss(pr)
                     ELSE [Logged(pr, "findMany") EXCEPT !.pc = "findMany"]]
  /\ UNCHANGED <<calc, env, maps, corrections, clock, maxInFlight, learned>>

\* prisma.merchantCategoryMap.findMany resolves; the loops run; on a match the
\* hit-count update is issued
FindManyResolves(p) ==
  /\ proc[p].pc = "findMany"
  /\ \E rows \in FindManyResults(maps, proc[p].userId, TAKE_ROWS) :
       LET bestMatch == ScanPairs(rows, Candidates(proc[p].merchant, proc[p].description),
                                  MinScore, 0, NoMatch)
       IN proc' = [proc EXCEPT ![p] =
                     IF bestMatch = NoMatch
                       THEN AfterDictionaryMiss(Logged(proc[p], "findMany:rows"))
                       ELSE [Logged(Logged(proc[p], "findMany:rows"), "hitUpdate") EXCEPT
                               !.pc = "hitUpdate", !.bestMatch = bestMatch]]
  /\ UNCHANGED <<calc, env, maps, corrections, clock, started, maxInFlight, learned>>

\* a slip: the catch block rethrows every error
FindManyRejects_Rethrows(p, code) ==
  /\ proc[p].pc = "findMany"
  /\ proc' = [proc EXCEPT ![p] =
                Throws(Logged(proc[p], IF code = "P2021" THEN "findMany:P2021"
                                       ELSE "findMany:error"), code)]
  /\ UNCHANGED <<calc, env, maps, corrections, clock, started, maxInFlight, learned>>

\* prisma.merchantCategoryMap.findMany rejects: P2021 is swallowed, anything else is rethrown
FindManyRejects(p, code) ==
  /\ proc[p].pc = "findMany"
  /\ proc' = [proc EXCEPT ![p] =
                IF code = "P2021" THEN AfterDictionaryMiss(Logged(proc[p], "findMany:P2021"))
                ELSE Throws(Logged(proc[p], "findMany:error"), code)]
  /\ UNCHANGED <<calc, env, maps, corrections, clock, started, maxInFlight, learned>>

DictionaryResult(bestMatch) ==
  Result(bestMatch.category, bestMatch.confidence,
         Reason("Matched merchant dictionary (%s).", bestMatch.source))

\* a slip: the new hit count is computed from the row as the request read it
HitUpdateResolves_ReadModifyWrite(p) ==
  /\ proc[p].pc = "hitUpdate"
  /\ clock' = clock + 1
  /\ maps' = [maps EXCEPT ![proc[p].bestMatch.id] =
                [@ EXCEPT !.hitCount = proc[p].before.maps[proc[p].bestMatch.id].hitCount + 1,
                          !.lastMatchedAt = clock', !.updatedAt = clock']]
  /\ proc' = [proc EXCEPT ![p] =
                Returns(Logged(@, "hitUpdate:ok"), DictionaryResult(@.bestMatch), "dictionary")]
  /\ UNCHANGED <<calc, env, corrections, started, maxInFlight, learned>>

\* the hit-count update resolves: hitCount incremented in the store, lastMatchedAt set
HitUpdateResolves(p) ==
  /\ proc[p].pc = "hitUpdate"
  /\ clock' = clock + 1
  /\ maps' = [maps EXCEPT ![proc[p].bestMatch.id] =
                [@ EXCEPT !.hitCount = @ + 1, !.lastMatchedAt = clock', !.updatedAt = clock']]
  /\ proc' = [proc EXCEPT ![p] =
                Returns(Logged(@, "hitUpdate:ok"), DictionaryResult(@.bestMatch), "dictionary")]
  /\ UNCHANGED <<calc, env, corrections, started, maxInFlight, learned>>

\* a slip: the rejection of the hit-count update is not caught
HitUpdateRejects_Throws(p) ==
  /\ proc[p].pc = "hitUpdate"
  /\ proc' = [proc EXCEPT ![p] = Throws(Logged(@, "hitUpdate:failed"), "P1001")]
  /\ UNCHANGED <<calc, env, maps, corrections, clock, started, maxInFlight, learned>>

\* the hit-count update rejects: .catch(() => null)
HitUpdateRejects(p) ==
  /\ proc[p].pc = "hitUpdate"
  /\ proc' = [proc EXCEPT ![p] =
                Returns(Logged(@, "hitUpdate:failed"), DictionaryResult(@.bestMatch), "dictionary")]
  /\ UNCHANGED <<calc, env, maps, corrections, clock, started, maxInFlight, learned>>

\* the Local Adapter fetch settles with a response or a transport error
LocalFetchSettles(p, response) ==
  /\ proc[p].pc = "localFetch"
  /\ proc' = [proc EXCEPT ![p] = AfterLocalModel(Logged(@, "localFetch:settled"), LocalModelResult(response))]
  /\ UNCHANGED <<calc, env, maps, corrections, clock, started, maxInFlight, learned>>

\* the Remote Adapter fetch settles with a response or a transport error
RemoteFetchSettles(p, response) ==
  /\ proc[p].pc = "remoteFetch"
  /\ proc' = [proc EXCEPT ![p] =
                Returns([Logged(@, "remoteFetch:settled") EXCEPT !.remoteResponse = response],
                        AiResult(response), "remote")]
  /\ UNCHANGED <<calc, env, maps, corrections, clock, started, maxInFlight, learned>>

\* a slip: the Remote Adapter fetch carries no deadline
DeadlineFires_LocalOnly(p) ==
  /\ proc[p].pc = "localFetch"
  /\ proc' = [proc EXCEPT ![p] =
                AfterLocalModel(Logged(@, "localFetch:abort"), LocalModelResult(FetchRejected))]
  /\ UNCHANGED <<calc, env, maps, corrections, clock, started, maxInFlight, learned>>

\* setTimeout(() => controller.abort(), 2500) fires while a fetch is pending: the
\* fetch rejects, or the read of the body does (for the Local Adapter both give null)
DeadlineFires(p) ==
  /\ proc[p].pc \in {"localFetch", "remoteFetch"}
  /\ \E response \in RemoteAbortOutcomes :
       proc' = [proc EXCEPT ![p] =
                  IF @.pc = "localFetch"
                    THEN AfterLocalModel(Logged(@, "localFetch:abort"), LocalModelResult(FetchRejected))
                    ELSE Returns([Logged(@, "remoteFetch:abort") EXCEPT !.remoteResponse = response],
                                 AiResult(response), "remote")]
  /\ UNCHANGED <<calc, env, maps, corrections, clock, started, maxInFlight, learned>>

(***************************************************************************)
(* PATCH /expenses/:expenseId/category and learnMerchantMappingFromCorrection *)
(***************************************************************************)
CorrectionRow(userId, merchant, description, oldCategory, newCategory, createdAt) ==
  [userId |-> userId, merchant |-> merchant, description |-> description,
   oldCategory |-> IF oldCategory # <<>> THEN oldCategory ELSE UNCATEGORIZED,
   newCategory |-> newCategory, createdAt |-> createdAt]

\* a slip: the comparison of the categories is missing
CallsLearner_Always(learnMapping, nextCategory, existingCategory) == learnMapping

\* shouldLearn && nextCategory !== existing.category
CallsLearner(learnMapping, nextCategory, existingCategory) ==
  learnMapping /\ nextCategory # existingCategory

\* learnMerchantMappingFromCorrection up to its first await
learnMerchantMappingFromCorrection(pr) ==
  IF normalizeMerchantText(pr.merchant) = <<>>
    THEN [Logged(pr, "learn") EXCEPT !.pc = "done"]
    ELSE [Logged(Logged(pr, "learn"), "correctionCreate") EXCEPT !.pc = "correctionCreate"]

\* the handler of PATCH /expenses/:expenseId/category for a request that passed the
\* session and input checks: existing is the expense row it found for the user
\* (table expenses is not part of the engine's stores and is not kept here),
\* nextCategory the normalized category of the body
PatchExpenseCategory(p, userId, existing, nextCategory, learnMapping) ==
  /\ Accepts(p)
  /\ started' = started + 1
  /\ LET pr == [Idle EXCEPT !.op = "correction", !.userId = userId,
                            !.merchant = existing.merchant,
                            !.description = existing.description,
                            !.oldCategory = existing.category,
                            !.newCategory = nextCategory,
                            !.learnMapping = learnMapping,
                            !.before = [maps |-> maps, corrections |-> corrections]]
     IN proc' = [proc EXCEPT ![p] =
                   IF CallsLearner(learnMapping, nextCategory, existing.category)
                     THEN learnMerchantMappingFromCorrection(pr)
                     ELSE [pr EXCEPT !.pc = "done"]]
  /\ UNCHANGED <<calc, env, maps, corrections, clock, maxInFlight, learned>>

\* the catch block of learnMerchantMappingFromCorrection
LearnCatches(pr, code) ==
  IF code = "P2021" THEN [Logged(pr, "swallowed") EXCEPT !.pc = "done"]
  ELSE Throws(Logged(pr, "rethrown"), code)

\* a slip: one record is kept per user and merchant, a later correction replaces it
CorrectionCreateResolves_KeepsLatest(p) ==
  /\ proc[p].pc = "correctionCreate"
  /\ clock' = clock + 1
  /\ LET row == CorrectionRow(proc[p].userId, proc[p].merchant, proc[p].description,
                              proc[p].oldCategory, proc[p].newCategory, clock')
         same == {i \in 1..Len(corrections) :
                    /\ corrections[i].userId = proc[p].userId
                    /\ corrections[i].merchant = proc[p].merchant}
     IN corrections' = IF same = {} THEN Append(corrections, row)
                       ELSE [i \in 1..Len(corrections) |->
                               IF i \in same THEN row ELSE corrections[i]]
  /\ proc' = [proc EXCEPT ![p] =
                [Logged(Logged(@, "correctionCreate:ok"), "findFirst") EXCEPT !.pc = "findFirst"]]
  /\ UNCHANGED <<calc, env, maps, started, maxInFlight, learned>>

\* prisma.categoryCorrection.create resolves; findFirst is issued
CorrectionCreateResolves(p) ==
  /\ proc[p].pc = "correctionCreate"
  /\ clock' = clock + 1
  /\ corrections' = Append(corrections,
                           CorrectionRow(proc[p].userId, proc[p].merchant,
                                         proc[p].description, proc[p].oldCategory,
                                         proc[p].newCategory, clock'))
  /\ proc' = [proc EXCEPT ![p] =
                [Logged(Logged(@, "correctionCreate:ok"), "findFirst") EXCEPT !.pc = "findFirst"]]
  /\ UNCHANGED <<calc, env, maps, started, maxInFlight, learned>>

\* a slip: the audit insert has a catch of its own and the learner goes on
CorrectionCreateRejects_GoesOn(p, code) ==
  /\ proc[p].pc = "correctionCreate"
  /\ proc' = [proc EXCEPT ![p] =
                [Logged(Logged(@, "correctionCreate:error"), "findFirst") EXCEPT !.pc = "findFirst"]]
  /\ UNCHANGED <<calc, env, maps, corrections, clock, started, maxInFlight, learned>>

\* prisma.categoryCorrection.create rejects
CorrectionCreateRejects(p, code) ==
  /\ proc[p].pc = "correctionCreate"
  /\ proc' = [proc EXCEPT ![p] =
                LearnCatches(Logged(@, IF code = "P2021" THEN "correctionCreate:P2021"
                                       ELSE "correctionCreate:error"), code)]
  /\ UNCHANGED <<calc, env, maps, corrections, clock, started, maxInFlight, learned>>

\* a slip: the entry is looked up by keyword only
FindFirstResults_AnyOwner(rows, userId, normalizedKeyword) ==
  LET ids == {i \in 1..Len(rows) : rows[i].normalizedKeyword = normalizedKeyword}
  IN IF ids = {} THEN {NoExisting}
     ELSE {[id |-> i, confidenceScore |-> rows[i].confidenceScore] :
             i \in {j \in ids : \A k \in ids : rows[j].updatedAt >= rows[k].updatedAt}}

\* findFirst({ where: { userId, normalizedKeyword }, orderBy: { updatedAt: 'desc' } })
FindFirstResults(rows, userId, normalizedKeyword) ==
  LET ids == {i \in 1..Len(rows) :
                rows[i].userId = userId /\ rows[i].normalizedKeyword = normalizedKeyword}
  IN IF ids = {} THEN {NoExisting}
     ELSE {[id |-> i, confidenceScore |-> rows[i].confidenceScore] :
             i \in {j \in ids : \A k \in ids : rows[j].updatedAt >= rows[k].updatedAt}}

\* prisma.merchantCategoryMap.findFirst resolves; the update or the create is issued
FindFirstResolves(p) ==
  /\ proc[p].pc = "findFirst"
  /\ \E existing \in FindFirstResults(maps, proc[p].userId,
                                      normalizeMerchantText(proc[p].merchant)) :
       proc' = [proc EXCEPT ![p] =
                  [Logged(@, IF existing.id # 0 THEN "update" ELSE "create") EXCEPT
                     !.pc = "mapWrite", !.existing = existing]]
  /\ UNCHANGED <<calc, env, maps, corrections, clock, started, maxInFlight, learned>>

FindFirstRejects(p, code) ==
  /\ proc[p].pc = "findFirst"
  /\ proc' = [proc EXCEPT ![p] =
                LearnCatches(Logged(@, IF code = "P2021" THEN "findFirst:P2021"
                                       ELSE "findFirst:error"), code)]
  /\ UNCHANGED <<calc, env, maps, corrections, clock, started, maxInFlight, learned>>

\* a slip: the confidence is set to 0.95 whatever the entry had
UpdatedRow_FlatConfidence(row, pr, now) ==
  [row EXCEPT !.merchantKeyword = pr.merchant,
              !.category = pr.newCategory,
              !.confidenceScore = Frac(95, 100),
              !.source = SOURCE_USER_CORRECTION,
              !.isActive = TRUE,
              !.updatedAt = now]

\* a slip: the update leaves the active flag as it is
UpdatedRow_LeavesActiveFlag(row, pr, now) ==
  [row EXCEPT !.merchantKeyword = pr.merchant,
              !.category = pr.newCategory,
              !.confidenceScore =
                 FracMax(NumberOr(pr.existing.confidenceScore, Frac(8, 10)), Frac(95, 100)),
              !.source = SOURCE_USER_CORRECTION,
              !.updatedAt = now]

\* data of prisma.merchantCategoryMap.update({ where: { id: existing.id }, ... })
UpdatedRow(row, pr, now) ==
  [row EXCEPT !.merchantKeyword = IF pr.merchant # <<>> THEN pr.merchant
                                  ELSE normalizeMerchantText(pr.merchant),
              !.category = pr.newCategory,
              !.confidenceScore =
                 FracMax(NumberOr(pr.existing.confidenceScore, Frac(8, 10)), Frac(95, 100)),
              !.source = SOURCE_USER_CORRECTION,
              !.isActive = TRUE,
              !.updatedAt = now]

\* a slip: the new entry gets a confidence below the match threshold
CreatedRow_LowConfidence(id, pr, now) ==
  MapRow(id, pr.userId,
         IF pr.merchant # <<>> THEN pr.merchant ELSE normalizeMerchantText(pr.merchant),
         normalizeMerchantText(pr.merchant), pr.newCategory, Frac(5, 10),
         SOURCE_USER_CORRECTION, 0, 0, TRUE, now)

\* data of prisma.merchantCategoryMap.create
CreatedRow(id, pr, now) ==
  MapRow(id, pr.userId,
         IF pr.merchant # <<>> THEN pr.merchant ELSE normalizeMerchantText(pr.merchant),
         normalizeMerchantText(pr.merchant), pr.newCategory, Frac(95, 100),
         SOURCE_USER_CORRECTION, 0, 0, TRUE, now)

\* the dictionary write resolves and learnMerchantMappingFromCorrection returns
MapWriteResolves(p) ==
  /\ proc[p].pc = "mapWrite"
  /\ clock' = clock + 1
  /\ maps' = IF proc[p].existing.id # 0
               THEN [maps EXCEPT ![proc[p].existing.id] = UpdatedRow(@, proc[p], clock')]
               ELSE Append(maps, CreatedRow(Len(maps) + 1, proc[p], clock'))
  /\ proc' = [proc EXCEPT ![p] = [Logged(@, "mapWrite:ok") EXCEPT !.pc = "done"]]
  /\ learned' = {l \in learned : ~(l.userId = proc[p].userId /\
                                     l.keyword = normalizeMerchantText(proc[p].merchant))}
                 \cup {[userId |-> proc[p].userId,
                        keyword |-> normalizeMerchantText(proc[p].merchant),
                        category |-> proc[p].newCategory,
                        id |-> IF proc[p].existing.id # 0 THEN proc[p].existing.id
                               ELSE Len(maps) + 1]}
  /\ UNCHANGED <<calc, env, corrections, started, maxInFlight>>

MapWriteRejects(p, code) ==
  /\ proc[p].pc = "mapWrite"
  /\ proc' = [proc EXCEPT ![p] =
                LearnCatches(Logged(@, IF code = "P2021" THEN "mapWrite:P2021"
                                       ELSE "mapWrite:error"), code)]
  /\ UNCHANGED <<calc, env, maps, corrections, clock, started, maxInFlight, learned>>

\* the handler answers the request (with the result, or with status 500 when
\* the engine threw) and the request is over
Responds(p) ==
  /\ proc[p].pc \in {"done", "threw"}
  /\ proc' = [proc EXCEPT ![p] = Idle]
  /\ UNCHANGED <<calc, env, maps, corrections, clock, started, maxInFlight, learned>>

(***************************************************************************)
(* Specification                                                           *)
(***************************************************************************)
Next ==
  \E p \in Procs :
    \/ \E userId \in Users, merchant \in Merchants, description \in Descriptions :
         categorizeExpense(p, userId, merchant, description)
    \/ FindManyResolves(p)
    \/ \E code \in StoreErrors : FindManyRejects(p, code)
    \/ HitUpdateResolves(p)
    \/ HitUpdateRejects(p)
    \/ \E response \in LocalResponses : LocalFetchSettles(p, response)
    \/ \E response \in RemoteResponses : RemoteFetchSettles(p, response)
    \/ DeadlineFires(p)
    \/ \E userId \in Users, existing \in Expenses,
          nextCategory \in CorrectionCategories, learnMapping \in BOOLEAN :
         PatchExpenseCategory(p, userId, existing, nextCategory, learnMapping)
    \/ CorrectionCreateResolves(p)
    \/ \E code \in StoreErrors : CorrectionCreateRejects(p, code)
    \/ FindFirstResolves(p)
    \/ \E code \in StoreErrors : FindFirstRejects(p, code)
    \/ MapWriteResolves(p)
    \/ \E code \in StoreErrors : MapWriteRejects(p, code)
    \/ Responds(p)

Spec == Init /\ [][Next]_vars

\* the timers of the event loop run: a deadline that stays pending fires, unless
\* the fetch settles first and clearTimeout cancels it
TimersRun == \A p \in Procs : WF_vars(DeadlineFires(p))
LiveSpec == Init /\ [][Next]_vars /\ TimersRun


(***************************************************************************)
(* The pure functions of the engine, called on their own                   *)
(***************************************************************************)
MaxTextLen == 4
MaxWordLen == 3

\* the texts of at most n characters over an alphabet
Texts(alphabet, n) == UNION {[1..k -> alphabet] : k \in 0..n}

Txt_PvtLtdSwiggyBang == <<"P","v","t","."," ","L","t","d"," ","S","W","I","G","G","Y","!","!">>
Txt_PvtLtdSwiggyUpper == <<"P","v","t","."," ","L","t","d"," ","S","W","I","G","G","Y">>
Txt_SwiggyBangalore ==
  <<"S","w","i","g","g","y"," ","B","a","n","g","a","l","o","r","e"," ",
    "P","r","i","v","a","t","e"," ","L","t","d">>
Txt_CoOp == <<" ","C","o","_","o","p",",","I","N","C","/","\t">>
\* 101 code units U+0130: the lower case has 202 code units
Txt_DottedCapitals == [i \in 1..101 |-> LatinCapitalIDotted]

NormalizerInputs ==
  Texts({"C", "o", ".", "!", " "}, MaxTextLen)
    \cup {Txt_PvtLtdSwiggyBang, Txt_PvtLtdSwiggyUpper, Txt_swiggy, Txt_SwiggyBangalore,
          Txt_CoOp, Txt_DottedCapitals}

SimilarityInputs == Texts({"a", "b"}, MaxWordLen) \X Texts({"a", "b"}, MaxWordLen)

Txt_HouseRent == <<"H","o","u","s","e"," ","R","E","N","T">>
Txt_Parents == <<"P","a","r","e","n","t","s">>
Txt_UberTrip == <<"u","b","e","r"," ","t","r","i","p">>
Txt_AmazonPrime == <<"A","m","a","z","o","n"," ","P","r","i","m","e">>
Txt_Service == <<"s","e","r","v","i","c","e">>
Txt_Xyz == <<"X","y","z">>
Txt_water == <<"w","a","t","e","r">>
Txt_bill == <<"b","i","l","l">>

\* { description, merchant } of keywordCategoryInference
KeywordInputs ==
  {<<>>, Txt_HouseRent, Txt_UberTrip, Txt_lunch, Txt_water, Txt_Xyz}
    \X {<<>>, Txt_Parents, Txt_AmazonPrime, Txt_Service, Txt_bill, Txt_Xyz, Txt_Swiggy}

Calc(fn, a, b) == [NoCalc EXCEPT !.fn = fn, !.a = a, !.b = b]

FunctionInit ==
  /\ env = Env(<<>>, FracZero, FALSE, FALSE)
  /\ maxInFlight = 0
  /\ maps = <<>>
  /\ corrections = <<>>
  /\ clock = 0
  /\ proc = [p \in Procs |-> Idle]
  /\ started = 0
  /\ learned = {}
  /\ calc \in {Calc("normalize", a, <<>>) : a \in NormalizerInputs}
               \cup {Calc("similarity", ab[1], ab[2]) : ab \in SimilarityInputs}
               \cup {Calc("keyword", dm[1], dm[2]) : dm \in KeywordInputs}

\* normalizeMerchantText(a)
Normalize ==
  /\ calc.fn = "normalize" /\ calc.step = 0
  /\ calc' = [calc EXCEPT !.step = 1, !.text = normalizeMerchantText(calc.a)]
  /\ UNCHANGED engine

\* normalizeMerchantText on the value of the first call
NormalizeAgain ==
  /\ calc.fn = "normalize" /\ calc.step = 1
  /\ calc' = [calc EXCEPT !.step = 2, !.again = normalizeMerchantText(calc.text)]
  /\ UNCHANGED engine

\* similarityScore(a, b)
Similarity ==
  /\ calc.fn = "similarity" /\ calc.step = 0
  /\ calc' = [calc EXCEPT !.step = 1, !.score = similarityScore(calc.a, calc.b)]
  /\ UNCHANGED engine

\* keywordCategoryInference({ description: a, merchant: b })
InferByKeyword ==
  /\ calc.fn = "keyword" /\ calc.step = 0
  /\ calc' = [calc EXCEPT !.step = 1, !.result = keywordCategoryInference(calc.a, calc.b)]
  /\ UNCHANGED engine

FunctionNext == Normalize \/ NormalizeAgain \/ Similarity \/ InferByKeyword

FunctionSpec == FunctionInit /\ [][FunctionNext]_vars

(***************************************************************************)
(* The dictionary tier on rows of every stored confidence                  *)
(***************************************************************************)
Txt_Quik == <<"Q","u","i","k">>
Txt_quik == <<"q","u","i","k">>
\* a row whose stored confidence_score is 0
ZeroSwiggy(id) ==
  MapRow(id, GLOBAL, Txt_Swiggy, Txt_swiggy, Txt_Shopping, Frac(0, 1), SOURCE_SEED, 0, 0, TRUE, id)
\* a row whose keyword is one substitution away from "qwik"
SeedQuik(id) ==
  MapRow(id, GLOBAL, Txt_Quik, Txt_quik, Txt_Shopping, Frac(1, 1), SOURCE_SEED, 0, 0, TRUE, id)

MatchDictionaries ==
  { <<SeedSwiggy(1), SeedQuik(2)>>,
    <<ZeroSwiggy(1), SeedQwik(2)>>,
    <<SeedQwik(1), OtherUsersQwik(2)>> }

\* MERCHANT_MATCH_MIN_SCORE unset and set to 0.85
MatchEnvSettings ==
  { Env(MODE_RULES_PLUS_LOCAL_THEN_OPENAI, FracZero, TRUE, TRUE),
    Env(MODE_RULES_PLUS_LOCAL_THEN_OPENAI, Frac(85, 100), TRUE, TRUE) }

MatchInit ==
  /\ env \in MatchEnvSettings
  /\ maxInFlight = 1
  /\ maps \in MatchDictionaries
  /\ corrections = <<>>
  /\ clock = Len(maps)
  /\ proc = [p \in Procs |-> Idle]
  /\ started = 0
  /\ learned = {}
  /\ calc = NoCalc

MatchSpec == MatchInit /\ [][Next]_vars

(***************************************************************************)
(* Two requests in progress at the same time                               *)
(***************************************************************************)
\* an entry of user u1 at the highest confidence
OwnQwik(id) ==
  MapRow(id, "u1", Txt_Qwik, Txt_qwik, Txt_Rent, Frac(1, 1), SOURCE_USER_CORRECTION, 0, 0, TRUE, id)

ConcurrentDictionaries == { <<>>, <<SeedQwik(1)>>, <<OwnQwik(1)>> }
ConcurrentMerchants == {Txt_Qwik, Txt_Swiggy}
ConcurrentExpenses ==
  { [merchant |-> Txt_Qwik, description |-> <<>>, category |-> Txt_Shopping] }

\* the handlers await every store call, so the steps of two requests interleave
\* at the awaits; in mode rules_only no adapter is called
ConcurrentInit ==
  /\ env = Env(MODE_RULES_ONLY, FracZero, FALSE, FALSE)
  /\ maxInFlight = 2
  /\ maps \in ConcurrentDictionaries
  /\ corrections = <<>>
  /\ clock = Len(maps)
  /\ proc = [p \in Procs |-> Idle]
  /\ started = 0
  /\ learned = {}
  /\ calc = NoCalc

ConcurrentNext ==
  \E p \in Procs :
    \/ \E userId \in Users, merchant \in ConcurrentMerchants :
         categorizeExpense(p, userId, merchant, <<>>)
    \/ FindManyResolves(p)
    \/ \E code \in StoreErrors : FindManyRejects(p, code)
    \/ HitUpdateResolves(p)
    \/ HitUpdateRejects(p)
    \/ \E userId \in Users, existing \in ConcurrentExpenses, nextCategory \in CorrectionCategories :
         PatchExpenseCategory(p, userId, existing, nextCategory, TRUE)
    \/ CorrectionCreateResolves(p)
    \/ \E code \in StoreErrors : CorrectionCreateRejects(p, code)
    \/ FindFirstResolves(p)
    \/ \E code \in StoreErrors : FindFirstRejects(p, code)
    \/ MapWriteResolves(p)
    \/ \E code \in StoreErrors : MapWriteRejects(p, code)
    \/ Responds(p)

ConcurrentSpec == ConcurrentInit /\ [][ConcurrentNext]_vars

(***************************************************************************)
(* A dictionary larger than the scan window                                *)
(***************************************************************************)
\* global entries for another merchant, entry id updated at id + 1
WindowFiller(id) ==
  MapRow(id, GLOBAL, Txt_Swiggy, Txt_swiggy, Txt_Dining, Frac(1, 1), SOURCE_SEED, 0, 0, TRUE, id + 1)
\* the entry for "qwik", at the same confidence and the least recently updated
WindowLast(id) ==
  MapRow(id, GLOBAL, Txt_Qwik, Txt_qwik, Txt_Shopping, Frac(1, 1), SOURCE_SEED, 0, 0, TRUE, 1)
\* n entries for another merchant and the entry for "qwik" after them in scan order
WindowDictionary(n) == [i \in 1..(n + 1) |-> IF i <= n THEN WindowFiller(i) ELSE WindowLast(i)]
\* the entry for "qwik" is row 301 of the scan order, and row 300
WindowDictionaries == {WindowDictionary(TAKE_ROWS), WindowDictionary(TAKE_ROWS - 1)}

WindowInit ==
  /\ env = Env(MODE_RULES_ONLY, FracZero, FALSE, FALSE)
  /\ maxInFlight = 1
  /\ maps \in WindowDictionaries
  /\ corrections = <<>>
  /\ clock = Len(maps) + 1
  /\ proc = [p \in Procs |-> Idle]
  /\ started = 0
  /\ learned = {}
  /\ calc = NoCalc

WindowNext ==
  \E p \in Procs :
    \/ \E userId \in Users, merchant \in ConcurrentMerchants :
         categorizeExpense(p, userId, merchant, <<>>)
    \/ FindManyResolves(p)
    \/ \E code \in StoreErrors : FindManyRejects(p, code)
    \/ HitUpdateResolves(p)
    \/ HitUpdateRejects(p)
    \/ Responds(p)

WindowSpec == WindowInit /\ [][WindowNext]_vars

(***************************************************************************)
(* Properties                                                              *)
(***************************************************************************)
Occurs(trace, event) == \E i \in 1..Len(trace) : trace[i] = event
Count(trace, event) == Cardinality({i \in 1..Len(trace) : trace[i] = event})
\* every occurrence of event comes after an occurrence of earlier
Precedes(trace, earlier, event) ==
  \A j \in 1..Len(trace) : trace[j] = event => \E i \in 1..(j - 1) : trace[i] = earlier
NoFetch(trace) == ~Occurs(trace, "localFetch") /\ ~Occurs(trace, "remoteFetch")

Categorizing(p) == proc[p].op = "categorize"
Correcting(p) == proc[p].op = "correction"
Returned(p) == proc[p].pc = "done"
\* the keyword rule result for the request of p
RuleResult(p) == KeywordInference[proc[p].description, proc[p].merchant]
\* both the dictionary tier and the rule tier of the request of p gave no match
BothMissed(p) ==
  /\ Returned(p)
  /\ proc[p].bestMatch = NoMatch
  /\ RuleResult(p) = Null

\* C1: categorizeExpense never raises: whatever the dictionary store and the
\* adapters do, the call does not end by throwing.
C1_NeverRaises ==
  \A p \in Procs : Categorizing(p) => proc[p].pc # "threw"

\* C2: the tiers are evaluated in the order dictionary, keyword rules, adapter,
\* and the first positive result is returned: a dictionary match is returned
\* without the rules or an adapter being consulted, a rule match after a dictionary
\* miss is returned without any adapter network call, in every mode, and an adapter
\* is called only when both gave no match.
C2_TiersInOrder ==
  \A p \in Procs : Categorizing(p) =>
    LET t == proc[p].trace
    IN /\ \A i, j \in 1..Len(t) : t[i] = "rules" /\ t[j] = "findMany" => j < i
       /\ Precedes(t, "rules", "localFetch")
       /\ Precedes(t, "rules", "remoteFetch")
       /\ ~NoFetch(t) => proc[p].bestMatch = NoMatch /\ RuleResult(p) = Null
       /\ Returned(p) /\ proc[p].bestMatch # NoMatch =>
            /\ proc[p].result = DictionaryResult(proc[p].bestMatch)
            /\ ~Occurs(t, "rules")
            /\ NoFetch(t)
       /\ Returned(p) /\ proc[p].bestMatch = NoMatch /\ RuleResult(p) # Null =>
            /\ proc[p].result = RuleResult(p)
            /\ NoFetch(t)

\* a rule match returned after the dictionary was read and missed, in a mode whose
\* adapter is configured
C2_Witness ==
  \E p \in Procs :
    /\ Categorizing(p) /\ Returned(p)
    /\ Occurs(proc[p].trace, "findMany:rows")
    /\ proc[p].bestMatch = NoMatch
    /\ proc[p].result = RuleResult(p) /\ RuleResult(p) # Null
    /\ CATEGORIZATION_MODE = MODE_RULES_PLUS_OPENAI /\ env.OPENAI_API_KEY

\* the corrections of the requesting user for the merchant of the request of p
\* whose dictionary write resolved (the latest one per user and keyword)
LearnedFor(p) ==
  {l \in learned : l.userId = proc[p].userId
                   /\ l.keyword = normalizeMerchantText(proc[p].merchant)}

\* similarity(candidate, normalize(keyword)) x confidence of a row
WeightedScore(row, candidate) ==
  FracMul(similarityScore(candidate,
                          normalizeMerchantText(IF row.normalizedKeyword # <<>>
                                                  THEN row.normalizedKeyword
                                                  ELSE row.merchantKeyword)),
          NumberOr(row.confidenceScore, Frac(8, 10)))

\* another row visible to the requesting user scores, for a candidate text of the
\* request, at least what the corrected row scores for the merchant
Outscored(l, p) ==
  LET candidates == Candidates(proc[p].merchant, proc[p].description)
      own == WeightedScore(maps[l.id], normalizeMerchantText(proc[p].merchant))
  IN \E i \in VisibleIds(maps, proc[p].userId) :
       /\ i # l.id
       /\ \E k \in 1..Len(candidates) : FracLe(own, WeightedScore(maps[i], candidates[k]))

ReturnsCorrection(p, l) ==
  /\ proc[p].result.category = l.category
  /\ FracLe(FracMul(Frac(95, 100), Frac(99, 100)), proc[p].result.confidence)
  /\ proc[p].result.reason = Reason("Matched merchant dictionary (%s).", SOURCE_USER_CORRECTION)

WellFormed(result) ==
  /\ result.category # <<>>
  /\ InUnitInterval(result.confidence)
  /\ result.reason.type = "string"

\* C4: every result categorizeExpense returns is well-formed: a non-empty
\* category, a confidence in [0,1] and a string reason, also when it is built from
\* an arbitrary adapter payload.
C4_ResultWellFormed ==
  \A p \in Procs : Categorizing(p) /\ Returned(p) => WellFormed(proc[p].result)

\* C5: in mode rules_only no request is ever sent to the Local or Remote Adapter,
\* and when neither the dictionary nor the rules match the result is
\* {Uncategorized, 0.2, "No rules matched."}.
C5_RulesOnly ==
  \A p \in Procs : Categorizing(p) /\ CATEGORIZATION_MODE = MODE_RULES_ONLY =>
    /\ NoFetch(proc[p].trace)
    /\ proc[p].pc \notin {"localFetch", "remoteFetch"}
    /\ BothMissed(p) => proc[p].result = Uncategorized("No rules matched.")

\* the fallback returned in mode rules_only with both adapters configured
C5_Witness ==
  \E p \in Procs :
    /\ Categorizing(p) /\ BothMissed(p)
    /\ CATEGORIZATION_MODE = MODE_RULES_ONLY
    /\ env.LOCAL_CATEGORIZER_URL /\ env.OPENAI_API_KEY
    /\ Occurs(proc[p].trace, "findMany:rows")
    /\ proc[p].result = Uncategorized("No rules matched.")

\* C6 as stated: in mode rules_plus_local, when dictionary and rules missed and the
\* Local Adapter gave no result, the result is the fallback of rules_only,
\* {Uncategorized, 0.2, "No rules matched."}.
C6_SameFallbackAsRulesOnly ==
  \A p \in Procs :
    Categorizing(p) /\ CATEGORIZATION_MODE = MODE_RULES_PLUS_LOCAL
    /\ BothMissed(p) /\ proc[p].localResult = Null =>
      proc[p].result = Uncategorized("No rules matched.")

\* C6 amended: in mode rules_plus_local, when dictionary and rules missed, a Local
\* Adapter result is returned as it is; when the adapter fails, times out or is not
\* configured the result is {Uncategorized, 0.2, "No rules/local model match."};
\* the Remote Adapter is never called.
C6_RulesPlusLocal ==
  \A p \in Procs : Categorizing(p) /\ CATEGORIZATION_MODE = MODE_RULES_PLUS_LOCAL =>
    /\ ~Occurs(proc[p].trace, "ai")
    /\ ~Occurs(proc[p].trace, "remoteFetch")
    /\ proc[p].pc # "remoteFetch"
    /\ BothMissed(p) =>
         /\ Occurs(proc[p].trace, "local")
         /\ proc[p].result = IF proc[p].localResult # Null
                               THEN proc[p].localResult
                               ELSE Uncategorized("No rules/local model match.")

\* the fallback of rules_plus_local after the Local Adapter was called and failed
C6_Witness ==
  \E p \in Procs :
    /\ Categorizing(p) /\ BothMissed(p)
    /\ CATEGORIZATION_MODE = MODE_RULES_PLUS_LOCAL
    /\ Occurs(proc[p].trace, "localFetch")
    /\ proc[p].localResult = Null
    /\ proc[p].result = Uncategorized("No rules/local model match.")
    /\ env.OPENAI_API_KEY

RecognizedModes ==
  {MODE_RULES_ONLY, MODE_RULES_PLUS_LOCAL, MODE_RULES_PLUS_LOCAL_THEN_OPENAI,
   MODE_RULES_PLUS_OPENAI}

\* C7: in the recognized modes the Remote Adapter is reached only in
\* rules_plus_openai (the mode when none is configured), without any Local Adapter
\* call, and in rules_plus_local_then_openai, after the Local Adapter was tried and
\* gave no result; a Local Adapter result is returned without a remote call.
C7_RemoteOnlyInOpenAiModes ==
  /\ env.CATEGORIZATION_MODE = <<>> => CATEGORIZATION_MODE = MODE_RULES_PLUS_OPENAI
  /\ \A p \in Procs : Categorizing(p) /\ CATEGORIZATION_MODE \in RecognizedModes =>
       LET t == proc[p].trace
       IN /\ Occurs(t, "ai") \/ Occurs(t, "remoteFetch") =>
               CATEGORIZATION_MODE \in {MODE_RULES_PLUS_OPENAI,
                                        MODE_RULES_PLUS_LOCAL_THEN_OPENAI}
          /\ CATEGORIZATION_MODE = MODE_RULES_PLUS_OPENAI =>
               ~Occurs(t, "local") /\ ~Occurs(t, "localFetch")
          /\ CATEGORIZATION_MODE = MODE_RULES_PLUS_LOCAL_THEN_OPENAI =>
               /\ Precedes(t, "local", "ai")
               /\ Occurs(t, "ai") => proc[p].localResult = Null
               /\ \A i, j \in 1..Len(t) :
                    t[i] = "localFetch" /\ t[j] = "remoteFetch" =>
                      \E k \in (i + 1)..(j - 1) :
                        t[k] \in {"localFetch:settled", "localFetch:abort"}
          /\ proc[p].localResult # Null =>
               /\ Returned(p) /\ proc[p].result = proc[p].localResult
               /\ ~Occurs(t, "ai") /\ ~Occurs(t, "remoteFetch")

\* the remote call of rules_plus_local_then_openai after a failed local call
C7_Witness ==
  \E p \in Procs :
    /\ Categorizing(p) /\ Returned(p)
    /\ CATEGORIZATION_MODE = MODE_RULES_PLUS_LOCAL_THEN_OPENAI
    /\ Occurs(proc[p].trace, "localFetch")
    /\ Occurs(proc[p].trace, "remoteFetch:settled")
    /\ proc[p].tier = "remote"

\* C8 as stated: one invocation performs at most one dictionary read and at most
\* one adapter network call, in every mode.
C8_AtMostOneNetworkCall ==
  \A p \in Procs : Categorizing(p) =>
    /\ Count(proc[p].trace, "findMany") <= 1
    /\ Count(proc[p].trace, "localFetch") + Count(proc[p].trace, "remoteFetch") <= 1

\* C8 amended: one invocation performs at most one dictionary read and at most one
\* network call to each adapter; it calls both adapters only in mode
\* rules_plus_local_then_openai, the remote one after the local call has settled,
\* so two adapter calls are never in flight together.
C8_OneCallPerAdapter ==
  \A p \in Procs : Categorizing(p) =>
    LET t == proc[p].trace
    IN /\ Count(t, "findMany") <= 1
       /\ Count(t, "localFetch") <= 1
       /\ Count(t, "remoteFetch") <= 1
       /\ Occurs(t, "localFetch") /\ Occurs(t, "remoteFetch") =>
            /\ CATEGORIZATION_MODE = MODE_RULES_PLUS_LOCAL_THEN_OPENAI
            /\ \A i, j \in 1..Len(t) :
                 t[i] = "localFetch" /\ t[j] = "remoteFetch" =>
                   \E k \in (i + 1)..(j - 1) :
                     t[k] \in {"localFetch:settled", "localFetch:abort"}
       /\ proc[p].pc = "localFetch" =>
            Count(t, "localFetch") = 1 + Count(t, "localFetch:settled")
                                       + Count(t, "localFetch:abort")
            /\ ~Occurs(t, "remoteFetch")

\* an invocation that made the local and then the remote network call
C8_Witness ==
  \E p \in Procs :
    /\ Categorizing(p)
    /\ Count(proc[p].trace, "localFetch") = 1
    /\ Count(proc[p].trace, "remoteFetch") = 1
    /\ proc[p].pc = "remoteFetch"

\* the handler reached the learner: learnMapping was not false and the categories differ
LearnerCalled(p) ==
  Correcting(p) /\ proc[p].learnMapping /\ proc[p].oldCategory # proc[p].newCategory
StoreRejected(p) ==
  Occurs(proc[p].trace, "swallowed") \/ Occurs(proc[p].trace, "rethrown")

\* C9: every correction with old category # new category appends exactly one
\* CorrectionRecord, also when the merchant normalizes to the empty string, where
\* the learner stops after the audit write and leaves the dictionary unchanged.
C9_EveryCorrectionAudited ==
  \A p \in Procs : LearnerCalled(p) /\ Returned(p) /\ ~StoreRejected(p) =>
    /\ Len(corrections) = Len(proc[p].before.corrections) + 1
    /\ SubSeq(corrections, 1, Len(proc[p].before.corrections)) = proc[p].before.corrections
    /\ normalizeMerchantText(proc[p].merchant) = <<>> => maps = proc[p].before.maps

\* C10: a correction whose new category equals the old one is a no-op: no
\* CorrectionRecord is appended and no dictionary entry is created or modified.
C10_SameCategoryNoOp ==
  \A p \in Procs : Correcting(p) /\ proc[p].oldCategory = proc[p].newCategory =>
    /\ Returned(p)
    /\ ~Occurs(proc[p].trace, "learn")
    /\ corrections = proc[p].before.corrections
    /\ maps = proc[p].before.maps

\* a correction to the same category, with learning asked for, on a merchant the
\* learner would store
C10_Witness ==
  \E p \in Procs :
    /\ Correcting(p) /\ Returned(p)
    /\ proc[p].oldCategory = proc[p].newCategory
    /\ proc[p].learnMapping
    /\ normalizeMerchantText(proc[p].merchant) # <<>>

\* C11: when the store reports "table not yet provisioned" (P2021) at the audit
\* write of learnMerchantMappingFromCorrection, the call fails: the error reaches
\* the caller and the correction is not reported as a success.
C11_AuditFailurePropagates ==
  \A p \in Procs :
    Correcting(p) /\ Occurs(proc[p].trace, "correctionCreate:P2021") =>
      proc[p].pc = "threw" /\ proc[p].error = "P2021"

\* the trace without the entries that tell how the dictionary read ended
WithoutReadOutcome(trace) ==
  SelectSeq(trace, LAMBDA e : e \notin {"findMany:rows", "findMany:P2021"})

\* the request after a dictionary read that found no row at all
AfterEmptyDictionary(pr) ==
  IF ScanPairs(<<>>, Candidates(pr.merchant, pr.description), MinScore, 0, NoMatch) = NoMatch
    THEN AfterDictionaryMiss(Logged(pr, "findMany:rows"))
    ELSE pr

DegradedRead(p) == Categorizing(p) /\ Occurs(proc[p].trace, "findMany:P2021")

\* C12: when the dictionary read is rejected with "table not yet provisioned"
\* (P2021), the dictionary tier yields no match without raising and without a
\* store write, and the step leaves the request exactly where a read of an empty
\* dictionary leaves it: at the keyword rules, then the mode tier.
C12_MissingTableIsNoMatch ==
  /\ [](\A p \in Procs : DegradedRead(p) =>
          /\ proc[p].pc # "threw"
          /\ proc[p].bestMatch = NoMatch
          /\ ~Occurs(proc[p].trace, "hitUpdate")
          /\ maps = proc[p].before.maps
          /\ Returned(p) => proc[p].tier # "dictionary")
  /\ [][\A p \in Procs :
          proc[p].pc = "findMany" /\ Occurs(proc'[p].trace, "findMany:P2021") =>
            /\ maps' = maps
            /\ [proc'[p] EXCEPT !.trace = WithoutReadOutcome(@)]
                 = [AfterEmptyDictionary(proc[p]) EXCEPT !.trace = WithoutReadOutcome(@)]]_vars

\* a request whose dictionary read was rejected with P2021 and that went on
\* through the rules to an adapter
C12_Witness ==
  \E p \in Procs :
    /\ DegradedRead(p) /\ Returned(p)
    /\ proc[p].tier \in {"local", "remote"}
    /\ Precedes(proc[p].trace, "findMany:P2021", "rules")

NotConfiguredResult ==
  Uncategorized("OPENAI_API_KEY is not configured; applied fallback category.")

\* C13: an adapter that is not configured is never called over the network and
\* raises nothing: without LOCAL_CATEGORIZER_URL the Local Adapter gives no result,
\* without OPENAI_API_KEY the Remote Adapter is skipped and categorizeExpense returns
\* the fixed {Uncategorized, 0.2} result.
C13_UnconfiguredAdapterSkipped ==
  \A p \in Procs : Categorizing(p) =>
    /\ ~env.LOCAL_CATEGORIZER_URL =>
         /\ ~Occurs(proc[p].trace, "localFetch")
         /\ proc[p].pc # "localFetch"
         /\ proc[p].localResult = Null
         /\ Returned(p) /\ Occurs(proc[p].trace, "local")
              /\ CATEGORIZATION_MODE = MODE_RULES_PLUS_LOCAL =>
                proc[p].result = Uncategorized("No rules/local model match.")
    /\ ~env.OPENAI_API_KEY =>
         /\ ~Occurs(proc[p].trace, "remoteFetch")
         /\ proc[p].pc # "remoteFetch"
         /\ Returned(p) /\ Occurs(proc[p].trace, "ai") => proc[p].result = NotConfiguredResult
    /\ Occurs(proc[p].trace, "local") \/ Occurs(proc[p].trace, "ai") => proc[p].pc # "threw"

\* the Remote Adapter reached without an API key, after a Local Adapter call that
\* gave nothing
C13_Witness ==
  \E p \in Procs :
    /\ Categorizing(p) /\ Returned(p)
    /\ ~env.OPENAI_API_KEY
    /\ Occurs(proc[p].trace, "localFetch")
    /\ Occurs(proc[p].trace, "ai")
    /\ proc[p].result = NotConfiguredResult

\* the Remote Adapter call of the request of p did not deliver an answer: the
\* deadline fired, the fetch rejected, the status was not a success, the body was
\* not JSON, or the content of the message was not JSON
RemoteCallFailed(p) ==
  LET r == proc[p].remoteResponse
  IN \/ Occurs(proc[p].trace, "remoteFetch:abort")
     \/ r.kind = "reject"
     \/ r.kind = "response" /\ (~r.ok \/ ~r.json \/ r.content = "malformed")

\* C14: when the Remote Adapter is reached and its call fails in any way (deadline,
\* transport error, non-success status, malformed JSON), categorizeExpense raises
\* nothing and returns {Uncategorized, 0.2, reason}; for a non-success status the
\* reason is the error text of the upstream.
C14_RemoteFailureIsFallback ==
  \A p \in Procs :
    Categorizing(p) /\ proc[p].remoteResponse # NoResponse /\ RemoteCallFailed(p) =>
      LET r == proc[p].remoteResponse
      IN /\ Returned(p)
         /\ proc[p].result.category = UNCATEGORIZED
         /\ proc[p].result.confidence = Frac(2, 10)
         /\ r.kind = "response" /\ ~r.ok /\ r.errorMessage.t = "string"
              /\ r.errorMessage.s # <<>> =>
                proc[p].result.reason = Reason("%s", r.errorMessage.s)

AwaitsAdapter(p) == proc[p].pc \in {"localFetch", "remoteFetch"}

\* C15: every adapter call is bounded by its deadline: once a Local or Remote
\* Adapter request is issued, a response is processed or the deadline fires, the
\* aborted call counts as a negative result and raises nothing, and
\* categorizeExpense returns; it never waits forever on an adapter.
C15_AdapterCallsEnd ==
  /\ \A p \in Procs : AwaitsAdapter(p) ~> Returned(p)
  /\ [](\A p \in Procs : Categorizing(p) =>
          /\ Occurs(proc[p].trace, "localFetch:abort") =>
               proc[p].localResult = Null /\ proc[p].pc # "localFetch"
          /\ Occurs(proc[p].trace, "remoteFetch:abort") =>
               Returned(p) /\ proc[p].result.category = UNCATEGORIZED
          /\ ~NoFetch(proc[p].trace) => proc[p].pc # "threw")

\* an invocation that returned after the deadline fired on both of its adapter calls
C15_Witness ==
  \E p \in Procs :
    /\ Categorizing(p) /\ Returned(p)
    /\ Occurs(proc[p].trace, "localFetch:abort")
    /\ Occurs(proc[p].trace, "remoteFetch:abort")

KeywordCall == calc.fn = "keyword" /\ calc.step = 1
\* lowercase(description + ' ' + merchant) of the call
KeywordText == toLowerCase(calc.a \o <<" ">> \o calc.b)
\* the rules of the table with a keyword that occurs in text
RulesOccurringIn(text) ==
  {i \in 1..Len(KeywordRules) :
     \E k \in 1..Len(KeywordRules[i].keywords) : includes(text, KeywordRules[i].keywords[k])}
RuleResultOf(i) ==
  Result(KeywordRules[i].category, Frac(82, 100),
         Reason("Matched keyword rule for %s.", KeywordRules[i].category))

\* C16: the keyword rule engine is first-match-wins in table order: on
\* lowercase(description + ' ' + merchant) it returns the category of the first rule
\* with a keyword occurring in the text, confidence 0.82 and the reason naming the
\* category, and no match when no keyword occurs; a text containing "rent" in any
\* case gives {Rent, 0.82, "Matched keyword rule for Rent."}.
C16_FirstRuleWins ==
  KeywordCall =>
    /\ RulesOccurringIn(KeywordText) = {} => calc.result = Null
    /\ \A i \in RulesOccurringIn(KeywordText) :
         (\A j \in RulesOccurringIn(KeywordText) : i <= j) => calc.result = RuleResultOf(i)
    /\ includes(KeywordText, <<"r", "e", "n", "t">>) =>
         calc.result = Result(Txt_Rent, Frac(82, 100),
                              Reason("Matched keyword rule for %s.", Txt_Rent))

\* a text in which keywords of several rules occur, "rent" inside another word
C16_Witness ==
  /\ KeywordCall
  /\ calc.a = Txt_UberTrip /\ calc.b = Txt_Parents
  /\ Cardinality(RulesOccurringIn(KeywordText)) >= 3
  /\ calc.result.category = Txt_Rent

NormalizerCalled == calc.fn = "normalize" /\ calc.step >= 1
NormalizerCalledTwice == calc.fn = "normalize" /\ calc.step = 2
WhiteSpaceOnly(s) == \A i \in 1..Len(s) : s[i] \in WhiteSpace

\* C17: the Normalizer is idempotent, normalize(normalize(x)) = normalize(x) for
\* every input text x, and empty or whitespace-only input yields the empty string.
C17_NormalizerIdempotent ==
  /\ NormalizerCalledTwice => calc.again = calc.text
  /\ NormalizerCalled /\ WhiteSpaceOnly(calc.a) => calc.text = <<>>

\* C18 as stated: normalize("Pvt. Ltd SWIGGY!!") equals normalize("swiggy").
C18_BangEqualsSwiggy ==
  NormalizerCalled /\ calc.a = Txt_PvtLtdSwiggyBang
    => calc.text = normalizeMerchantText(Txt_swiggy)

\* C18: the Normalizer lowercases, turns the punctuation . , - _ / \ into spaces and
\* removes the corporate suffix words, and keeps every other character:
\* normalize("Pvt. Ltd SWIGGY") equals normalize("swiggy") = "swiggy", while
\* normalize("Pvt. Ltd SWIGGY!!") is "swiggy!!".
C18_ListedPunctuationOnly ==
  NormalizerCalled =>
    /\ calc.a = Txt_PvtLtdSwiggyUpper =>
         calc.text = normalizeMerchantText(Txt_swiggy) /\ calc.text = Txt_swiggy
    /\ calc.a = Txt_PvtLtdSwiggyBang => calc.text = Txt_swiggy \o <<"!", "!">>
    /\ calc.a = Txt_swiggy => calc.text = Txt_swiggy
    /\ \A i \in 1..Len(calc.text) :
         /\ calc.text[i] \notin PunctuationClass
         /\ calc.text[i] = LowerChar(calc.text[i])
    /\ Count(calc.text, "!") = Count(calc.a, "!")

C18_Witness ==
  /\ NormalizerCalled
  /\ calc.a = Txt_PvtLtdSwiggyBang
  /\ calc.text = Txt_swiggy \o <<"!", "!">>

SimilarityCalled == calc.fn = "similarity" /\ calc.step = 1
\* the least number of single-character insertions, deletions and substitutions
\* that turn a into b
RECURSIVE EditDistance(_, _)
EditDistance(a, b) ==
  IF a = <<>> THEN Len(b)
  ELSE IF b = <<>> THEN Len(a)
  ELSE Min(Min(EditDistance(Tail(a), b) + 1, EditDistance(a, Tail(b)) + 1),
           EditDistance(Tail(a), Tail(b)) + (IF Head(a) = Head(b) THEN 0 ELSE 1))

\* C19: similarity(a, b) is 0 when either string is empty, 0.99 when one string
\* contains the other (a = b included), and otherwise
\* 1 - editDistance(a, b) / max(len(a), len(b)) with the unit-cost Levenshtein
\* distance; the value is always in [0,1].
C19_SimilarityValue ==
  SimilarityCalled =>
    /\ InUnitInterval(calc.score)
    /\ calc.a = <<>> \/ calc.b = <<>> => FracEq(calc.score, FracZero)
    /\ calc.a # <<>> /\ calc.b # <<>> /\ (includes(calc.a, calc.b) \/ includes(calc.b, calc.a))
         => FracEq(calc.score, Frac(99, 100))
    /\ calc.a # <<>> /\ calc.b # <<>> /\ ~includes(calc.a, calc.b) /\ ~includes(calc.b, calc.a)
         => FracEq(calc.score,
                   Frac(Max(Len(calc.a), Len(calc.b)) - EditDistance(calc.a, calc.b),
                        Max(Len(calc.a), Len(calc.b))))

\* two strings of different lengths, neither containing the other, at distance 2
C19_Witness ==
  /\ SimilarityCalled
  /\ calc.a = <<"a", "a", "b">> /\ calc.b = <<"b", "b">>
  /\ FracEq(calc.score, Frac(1, 3))

\* the request of p has run the loops of the dictionary tier
Scanned(p) == proc[p].op = "categorize" /\ Occurs(proc[p].trace, "findMany:rows")
\* the (entry, candidate) pairs of the scan: the active entries visible to the
\* user as they were when the request started, and the candidate texts
ScannedPairs(p) ==
  LET candidates == Candidates(proc[p].merchant, proc[p].description)
  IN VisibleIds(proc[p].before.maps, proc[p].userId) \X {candidates[k] : k \in 1..Len(candidates)}
\* similarity(candidate, normalize(entry.keyword)) x the entry's stored confidence
StoredWeighted(p, pair) ==
  LET entry == proc[p].before.maps[pair[1]]
      keyword == IF entry.normalizedKeyword # <<>> THEN entry.normalizedKeyword
                 ELSE entry.merchantKeyword
  IN FracMul(similarityScore(pair[2], normalizeMerchantText(keyword)), entry.confidenceScore)
AtOrAboveThreshold(p) == {pair \in ScannedPairs(p) : FracLe(MinScore, StoredWeighted(p, pair))}
EntryCategory(p, pair) ==
  LET c == normalizeCategory(JsString(proc[p].before.maps[pair[1]].category))
  IN IF c # <<>> THEN c ELSE UNCATEGORIZED

\* C20: the dictionary tier scores every (candidate, scanned entry) pair as
\* similarity(candidate, normalize(entry.keyword)) x the entry's stored confidence,
\* for every stored confidence in [0,1]; it returns the category of a pair with the
\* maximum weighted value when that value is at or above the minimum threshold
\* (default 0.72), and no match when every pair is below the threshold, the call
\* then going on to the rule tier.
C20_WeightedByStoredConfidence ==
  \A p \in Procs :
    Scanned(p) =>
      IF AtOrAboveThreshold(p) = {}
        THEN proc[p].bestMatch = NoMatch /\ proc[p].tier # "dictionary"
        ELSE /\ proc[p].bestMatch # NoMatch
             /\ \E pair \in AtOrAboveThreshold(p) :
                  /\ \A other \in AtOrAboveThreshold(p) :
                       FracLe(StoredWeighted(p, other), StoredWeighted(p, pair))
                  /\ pair[1] = proc[p].bestMatch.id
                  /\ proc[p].bestMatch.category = EntryCategory(p, pair)
                  /\ FracEq(proc[p].bestMatch.weightedScore, StoredWeighted(p, pair))

\* the entry the dictionary tier matched for the request of p, as it was stored
\* when the request started
MatchedEntry(p) == proc[p].before.maps[proc[p].bestMatch.id]
\* entry i of the store at the start of the request of p may not be read for it
HiddenFrom(p, i) ==
  LET entry == proc[p].before.maps[i]
  IN ~entry.isActive \/ (entry.userId # GLOBAL /\ entry.userId # proc[p].userId)

\* C21: the dictionary tier only matches entries that are active and visible to
\* the requesting user (global, or owned by that user): no categorize result for a
\* user is derived from an inactive entry or from an entry of another user.
C21_OnlyVisibleEntriesMatch ==
  \A p \in Procs : Categorizing(p) =>
    /\ proc[p].bestMatch # NoMatch =>
         /\ proc[p].bestMatch.id \in 1..Len(proc[p].before.maps)
         /\ ~HiddenFrom(p, proc[p].bestMatch.id)
    /\ Returned(p) /\ proc[p].tier = "dictionary" =>
         /\ proc[p].bestMatch # NoMatch
         /\ proc[p].result.category \in {MatchedEntry(p).category, UNCATEGORIZED}
         /\ proc[p].result.reason.arg = MatchedEntry(p).source

\* a request whose merchant is the keyword of an entry hidden from its user, and
\* the dictionary tier gave no match
C21_Witness ==
  \E p \in Procs :
    /\ Categorizing(p) /\ Returned(p) /\ Scanned(p)
    /\ proc[p].bestMatch = NoMatch
    /\ \E i \in 1..Len(proc[p].before.maps) :
         /\ HiddenFrom(p, i)
         /\ proc[p].before.maps[i].normalizedKeyword = normalizeMerchantText(proc[p].merchant)

\* the dictionary write of the learner called for p resolves in this step
LearnerWrites(p) ==
  /\ proc[p].pc = "mapWrite"
  /\ proc'[p].pc = "done"
  /\ Occurs(proc'[p].trace, "mapWrite:ok")
\* the entries of user with normalized keyword k
OwnEntries(rows, userId, k) ==
  {i \in 1..Len(rows) : rows[i].userId = userId /\ rows[i].normalizedKeyword = k}
MostRecentlyUpdated(rows, ids) == {i \in ids : \A j \in ids : rows[i].updatedAt >= rows[j].updatedAt}

\* C22: when learnFromCorrection(U, M, old -> C) with non-empty normalized
\* merchant k completes: if U owned an entry with normalized keyword k, the most
\* recently updated one is updated in place (raw keyword M, category C, confidence
\* max(existing confidence, 0.95), provenance user_correction, active, hit count
\* unchanged) and no entry is created; otherwise exactly one entry owned by U is
\* created with normalized keyword k, category C, confidence 0.95, provenance
\* user_correction, hit count 0, active.
C22_UpsertOnCorrection ==
  [][\A p \in Procs : LearnerWrites(p) =>
       LET k == normalizeMerchantText(proc[p].merchant)
           own == OwnEntries(maps, proc[p].userId, k)
       IN /\ k # <<>>
          /\ own # {} =>
               /\ Len(maps') = Len(maps)
               /\ \E i \in MostRecentlyUpdated(maps, own) :
                    /\ \A j \in 1..Len(maps) : j # i => maps'[j] = maps[j]
                    /\ maps'[i].id = maps[i].id
                    /\ maps'[i].userId = proc[p].userId
                    /\ maps'[i].normalizedKeyword = k
                    /\ maps'[i].merchantKeyword = proc[p].merchant
                    /\ maps'[i].category = proc[p].newCategory
                    /\ FracEq(maps'[i].confidenceScore,
                              FracMax(maps[i].confidenceScore, Frac(95, 100)))
                    /\ maps'[i].source = SOURCE_USER_CORRECTION
                    /\ maps'[i].isActive
                    /\ maps'[i].hitCount = maps[i].hitCount
                    /\ maps'[i].lastMatchedAt = maps[i].lastMatchedAt
          /\ own = {} =>
               /\ Len(maps') = Len(maps) + 1
               /\ \A j \in 1..Len(maps) : maps'[j] = maps[j]
               /\ LET new == maps'[Len(maps')]
                  IN /\ new.userId = proc[p].userId
                     /\ new.normalizedKeyword = k
                     /\ new.merchantKeyword = proc[p].merchant
                     /\ new.category = proc[p].newCategory
                     /\ FracEq(new.confidenceScore, Frac(95, 100))
                     /\ new.source = SOURCE_USER_CORRECTION
                     /\ new.hitCount = 0
                     /\ new.isActive]_vars

\* a correction has updated an entry of its user that was inactive, at confidence
\* 0.9 and in another category, and the entry is the only one of the store it changed
C22_Witness ==
  \E p \in Procs :
    /\ Correcting(p) /\ Returned(p)
    /\ Occurs(proc[p].trace, "update") /\ Occurs(proc[p].trace, "mapWrite:ok")
    /\ Len(maps) = Len(proc[p].before.maps)
    /\ \E i \in 1..Len(maps) :
         /\ ~proc[p].before.maps[i].isActive
         /\ proc[p].before.maps[i].category # proc[p].newCategory
         /\ maps[i].isActive /\ maps[i].category = proc[p].newCategory
         /\ FracEq(maps[i].confidenceScore, Frac(95, 100))

\* C23: across any sequence of categorize and learnFromCorrection operations every
\* dictionary entry keeps existing, its confidence stays in [0,1] and never
\* decreases, its hit count never decreases, and its active flag never goes from
\* true to false.
C23_EntriesOnlyGrow ==
  /\ [](\A i \in 1..Len(maps) : InUnitInterval(maps[i].confidenceScore))
  /\ [][/\ Len(maps') >= Len(maps)
        /\ \A i \in 1..Len(maps) :
             /\ maps'[i].id = maps[i].id
             /\ maps'[i].userId = maps[i].userId
             /\ FracLe(maps[i].confidenceScore, maps'[i].confidenceScore)
             /\ maps'[i].hitCount >= maps[i].hitCount
             /\ maps[i].isActive => maps'[i].isActive]_vars

\* an entry stored at confidence 1 has been matched and then corrected by its owner
C23_Witness ==
  /\ Len(maps) = 1
  /\ maps[1].userId = "u1"
  /\ maps[1].hitCount >= 1
  /\ maps[1].category = Txt_Food
  /\ FracEq(maps[1].confidenceScore, FracOne)

\* the hit-count update issued for the request of p is persisted in this step
HitPersisted(p) ==
  /\ proc[p].pc = "hitUpdate"
  /\ Occurs(proc'[p].trace, "hitUpdate:ok")
\* the step belongs to a categorize request and is not a persisted hit-count update
OtherCategorizeStep(p) ==
  /\ proc'[p] # proc[p]
  /\ Categorizing(p) \/ proc'[p].op = "categorize"
  /\ ~HitPersisted(p)

\* C24: on an accepted dictionary match exactly one entry, the matched one, has
\* its hit count incremented by 1 and its last-matched-at set; no entry is written
\* when the dictionary tier gives no match; and when persisting the update fails,
\* categorize still returns the match result and does not raise.
C24_HitCountBestEffort ==
  /\ [][\A p \in Procs :
          /\ HitPersisted(p) =>
               /\ Len(maps') = Len(maps)
               /\ proc[p].bestMatch # NoMatch
               /\ \A i \in 1..Len(maps) :
                    IF i = proc[p].bestMatch.id
                      THEN /\ maps'[i].hitCount = maps[i].hitCount + 1
                           /\ maps'[i].lastMatchedAt = clock'
                           /\ maps'[i].lastMatchedAt > maps[i].lastMatchedAt
                           /\ [maps'[i] EXCEPT !.hitCount = 0, !.lastMatchedAt = 0, !.updatedAt = 0]
                                = [maps[i] EXCEPT !.hitCount = 0, !.lastMatchedAt = 0, !.updatedAt = 0]
                      ELSE maps'[i] = maps[i]
          /\ OtherCategorizeStep(p) => maps' = maps]_vars
  /\ [](\A p \in Procs :
          /\ Categorizing(p) /\ proc[p].bestMatch = NoMatch => ~Occurs(proc[p].trace, "hitUpdate")
          /\ Categorizing(p) /\ Occurs(proc[p].trace, "hitUpdate:failed") =>
               /\ Returned(p)
               /\ proc[p].bestMatch # NoMatch
               /\ proc[p].result.category = proc[p].bestMatch.category
               /\ FracEq(proc[p].result.confidence, proc[p].bestMatch.confidence)
               /\ proc[p].result.reason.arg = proc[p].bestMatch.source)

\* a match was returned although its hit-count update was not persisted, with
\* the store as it was when the request started
C24_Witness ==
  \E p \in Procs :
    /\ Categorizing(p) /\ Returned(p)
    /\ Occurs(proc[p].trace, "hitUpdate:failed")
    /\ proc[p].tier = "dictionary"
    /\ maps = proc[p].before.maps

\* no request has been answered yet: every request started is still in its slot
NoneAnswered == started = Cardinality({p \in Procs : proc[p].pc # "idle"})
\* the requests whose hit-count update of entry i was persisted
PersistedHits(i) ==
  {p \in Procs : /\ Categorizing(p)
                 /\ Occurs(proc[p].trace, "hitUpdate:ok")
                 /\ proc[p].bestMatch.id = i}

\* C25: under any interleaving of concurrent categorize invocations that match
\* the same entry no hit-count update is lost: every persisted update adds exactly
\* 1 to the count stored at that moment, nothing else changes a hit count, and so
\* the count grows by the number of accepted matches whose update was persisted.
C25_NoLostHitUpdate ==
  /\ [][/\ \A p \in Procs : HitPersisted(p) =>
             maps'[proc[p].bestMatch.id].hitCount = maps[proc[p].bestMatch.id].hitCount + 1
        /\ \A i \in 1..Len(maps) :
             (\A p \in Procs : HitPersisted(p) => proc[p].bestMatch.id # i)
               => maps'[i].hitCount = maps[i].hitCount]_vars
  /\ [](NoneAnswered =>
          \A i \in 1..Len(maps) : maps[i].hitCount = Cardinality(PersistedHits(i)))

\* two requests that were both started before either update matched the same
\* entry, and both updates were persisted
C25_Witness ==
  \E i \in 1..Len(maps) :
    /\ \A p \in Procs :
         /\ p \in PersistedHits(i)
         /\ proc[p].before.maps[i].hitCount = 0
    /\ maps[i].hitCount = 2

\* C30: starting from a dictionary with at most one entry per (owning user,
\* normalized keyword), after any interleaving of learnFromCorrection calls, two
\* concurrent corrections by the same user for the same merchant included, there
\* is still at most one user-scoped entry per (owning user, normalized keyword).
C30_OneEntryPerUserKeyword ==
  \A i, j \in 1..Len(maps) :
    /\ maps[i].userId # GLOBAL
    /\ maps[i].userId = maps[j].userId
    /\ maps[i].normalizedKeyword = maps[j].normalizedKeyword
    => i = j

AuditInsertFailed(p) ==
  \/ Occurs(proc[p].trace, "correctionCreate:P2021")
  \/ Occurs(proc[p].trace, "correctionCreate:error")
\* the CorrectionRecord of the request of p is the last one of the table
OwnRecordWritten(p) ==
  /\ Len(corrections) = Len(proc[p].before.corrections) + 1
  /\ corrections[Len(corrections)].userId = proc[p].userId
  /\ corrections[Len(corrections)].merchant = proc[p].merchant
  /\ corrections[Len(corrections)].newCategory = proc[p].newCategory

\* C27: learnFromCorrection performs the audit insert strictly before the
\* dictionary upsert and the two writes are not atomic: when the audit insert
\* fails the dictionary is left unchanged, and a learner-made create or update
\* never exists without its CorrectionRecord having been written first.
C27_AuditBeforeUpsert ==
  /\ \A p \in Procs : Correcting(p) =>
       /\ Precedes(proc[p].trace, "correctionCreate:ok", "findFirst")
       /\ Precedes(proc[p].trace, "correctionCreate:ok", "update")
       /\ Precedes(proc[p].trace, "correctionCreate:ok", "create")
       /\ Precedes(proc[p].trace, "correctionCreate:ok", "mapWrite:ok")
       /\ AuditInsertFailed(p) =>
            /\ maps = proc[p].before.maps
            /\ corrections = proc[p].before.corrections
            /\ ~Occurs(proc[p].trace, "findFirst")
       /\ Occurs(proc[p].trace, "mapWrite:ok") => OwnRecordWritten(p)
  /\ \A l \in learned :
       \E k \in 1..Len(corrections) :
         /\ corrections[k].userId = l.userId
         /\ normalizeMerchantText(corrections[k].merchant) = l.keyword
         /\ corrections[k].newCategory = l.category
         /\ corrections[k].createdAt < maps[l.id].updatedAt

\* a failure between the two writes: the CorrectionRecord is written, the
\* dictionary write failed, and the dictionary is as it was
C27_Witness ==
  \E p \in Procs :
    /\ Correcting(p)
    /\ Occurs(proc[p].trace, "mapWrite:error") \/ Occurs(proc[p].trace, "findFirst:error")
    /\ OwnRecordWritten(p)
    /\ maps = proc[p].before.maps

\* the audit insert of the request of p resolves in this step
AuditInsertResolves(p) ==
  /\ proc[p].pc = "correctionCreate"
  /\ Occurs(proc'[p].trace, "correctionCreate:ok")

\* C28: CorrectionRecords are append-only: no operation of the engine updates or
\* deletes an existing record, and the table grows by exactly one record for
\* every correction event whose audit write is carried out, and by nothing else.
C28_CorrectionsAppendOnly ==
  /\ [][/\ Len(corrections') >= Len(corrections)
        /\ \A i \in 1..Len(corrections) : corrections'[i] = corrections[i]
        /\ Len(corrections') =
             Len(corrections) + Cardinality({p \in Procs : AuditInsertResolves(p)})
        /\ \A p \in Procs : AuditInsertResolves(p) =>
             /\ corrections'[Len(corrections')].userId = proc[p].userId
             /\ corrections'[Len(corrections')].merchant = proc[p].merchant
             /\ corrections'[Len(corrections')].newCategory = proc[p].newCategory]_vars
  /\ [](NoneAnswered =>
          Len(corrections) =
            Cardinality({p \in Procs : Occurs(proc[p].trace, "correctionCreate:ok")}))

\* two corrections of the same user on the same merchant have both been recorded
C28_Witness ==
  /\ Len(corrections) = 2
  /\ corrections[1].userId = corrections[2].userId
  /\ corrections[1].merchant = corrections[2].merchant
  /\ corrections[1].createdAt < corrections[2].createdAt

\* the store without the entries owned by users other than userId
WithoutOthers(rows, userId) ==
  SelectSeq(rows, LAMBDA row : row.userId = GLOBAL \/ row.userId = userId)
\* the outcomes the loops of the dictionary tier can have for the request of p on
\* a store
ScanOutcomes(rows, p) ==
  {ScanPairs(found, Candidates(proc[p].merchant, proc[p].description), MinScore, 0, NoMatch) :
     found \in FindManyResults(rows, proc[p].userId, TAKE_ROWS)}

AheadOf(p, i) ==
  LET rows == proc[p].before.maps
  IN {j \in 1..Len(rows) :
        /\ ~HiddenFrom(p, j)
        /\ InScanOrder(rows[j], rows[i])
        /\ ~InScanOrder(rows[i], rows[j])}

\* C26: the dictionary tier considers at most the first 300 active entries
\* visible to the user, in the order confidence descending then recency
\* descending: the entry a request matched has fewer than 300 visible entries
\* ahead of it, so an entry outside the window never produces a match.
C26_MatchInsideScanWindow ==
  \A p \in Procs : Categorizing(p) /\ proc[p].bestMatch # NoMatch =>
    /\ proc[p].bestMatch.id \in 1..Len(proc[p].before.maps)
    /\ Cardinality(AheadOf(p, proc[p].bestMatch.id)) < TAKE_ROWS

\* a request whose merchant is exactly the keyword of a visible entry that has
\* 300 visible entries ahead of it, and the dictionary tier gave no match
C26_Witness ==
  \E p \in Procs :
    /\ Categorizing(p) /\ Returned(p) /\ Scanned(p)
    /\ proc[p].bestMatch = NoMatch
    /\ \E i \in 1..Len(proc[p].before.maps) :
         /\ ~HiddenFrom(p, i)
         /\ proc[p].before.maps[i].normalizedKeyword = normalizeMerchantText(proc[p].merchant)
         /\ Cardinality(AheadOf(p, i)) >= TAKE_ROWS

====
